---- MODULE Spec2Model ----
(***************************************************************************)
(* Model of the prometheus_tui terminal dashboard: the layout compositor   *)
(* (LayoutDimensions, UIManager), the panel classes (BasePanel and its     *)
(* subclasses) and the navigation controller (Application).                *)
(***************************************************************************)
EXTENDS Integers, Sequences, FiniteSets, TLC

VARIABLES
    stdscr,                 \* terminal size as curses reports it (getmaxyx)
    layout_,                \* UIManager::layout_
    windows,                \* UIManager's five WINDOW* members
    surface,                \* what main_panel_win_ holds, line by line
    pc,                     \* position of Application::run in its loop
    now,                    \* std::chrono::steady_clock, in seconds
    last_refresh_,          \* Application::last_refresh_
    active_workspace_,      \* AppState::active_workspace_
    active_panel_id_,       \* AppState::active_panel_
    current_panel_list_,    \* Application::current_panel_list_
    current_panel_index_,   \* Application::current_panel_index_
    active_panel_,          \* UIManager::active_panel_ (the owned panel object)
    hooks,                  \* lifecycle hooks run by the last set_active_panel, in order
    lifecycle,              \* per panel instance: what its lifecycle hooks last reported
    trace,                  \* what the current loop iteration has done so far
    wsTrail,                \* the active workspaces after the most recent 'w' presses
    tabTrail,               \* the active panel ids after the most recent Tab presses
    lastAnyRefresh,         \* time of the most recent refresh() call of any kind
    autoHist,               \* time of the last auto-refresh and gap to the one before
    glyph,                  \* a call of a glyph function: arguments and result
    call,                   \* a call of another function examined alone: arguments and result
    frame,                  \* the curses output calls of the latest frame, in order
    initialized_,           \* UIManager::initialized_: curses mode is on
    exit_code               \* what main returned, once it has

vars == <<stdscr, layout_, windows, surface, pc, now, last_refresh_, active_workspace_,
          active_panel_id_, current_panel_list_, current_panel_index_,
          active_panel_, hooks, lifecycle, trace, wsTrail, tabTrail, lastAnyRefresh,
          autoHist, glyph, call, frame, initialized_, exit_code>>

layoutVars == <<stdscr, layout_, windows, surface>>
callVars == <<glyph, call>>
procVars == <<initialized_, exit_code>>
appVars == <<pc, now, last_refresh_, active_workspace_, active_panel_id_,
             current_panel_list_, current_panel_index_, active_panel_, hooks,
             lifecycle, trace, wsTrail, tabTrail, lastAnyRefresh, autoHist>>

\* A pointer is either null or holds the object it points to.
nullptr == <<>>
Ptr(obj) == <<obj>>
Deref(p) == p[1]

\* An empty std::optional.
nullopt == "nullopt"

(***************************************************************************)
(* Layout compositor                                                       *)
(***************************************************************************)

\* Terminal sizes offered to the program (columns, lines).
TermWidths == {40, 50, 69, 70, 71, 100, 179, 180, 181, 200, 250}
TermHeights == {4, 5, 24, 25, 40, 50}

\* Default member initialisers of struct LayoutDimensions.
top_bar_height == 3
left_width == 20
right_width == 30
status_bar_height == 1
WideThreshold == 180
WideSidebar == 35

\* The members of LayoutDimensions that have initialisers; the others are
\* assigned by calculate before anything reads them.
LayoutDefaults ==
    [top_bar_height |-> top_bar_height, left_width |-> left_width,
     right_width |-> right_width, status_bar_height |-> status_bar_height]

\* LayoutDimensions::calculate, as it would be if main_width left out the
\* right sidebar.
calculate_without_right(l, tw, th) ==
    LET lw == IF tw > WideThreshold THEN WideSidebar ELSE l.left_width
        rw == IF tw > WideThreshold THEN WideSidebar ELSE l.right_width
    IN  [term_width |-> tw, term_height |-> th,
         top_bar_height |-> l.top_bar_height,
         left_width |-> lw, right_width |-> rw,
         status_bar_height |-> l.status_bar_height,
         main_x |-> lw, main_y |-> l.top_bar_height,
         main_width |-> tw - lw,
         main_height |-> th - l.top_bar_height - l.status_bar_height]

\* LayoutDimensions::calculate, applied to the object l it is called on.
calculate(l, tw, th) ==
    LET lw == IF tw > WideThreshold THEN WideSidebar ELSE l.left_width
        rw == IF tw > WideThreshold THEN WideSidebar ELSE l.right_width
    IN  [term_width |-> tw, term_height |-> th,
         top_bar_height |-> l.top_bar_height,
         left_width |-> lw, right_width |-> rw,
         status_bar_height |-> l.status_bar_height,
         main_x |-> lw, main_y |-> l.top_bar_height,
         main_width |-> tw - lw - rw,
         main_height |-> th - l.top_bar_height - l.status_bar_height]

\* curses newwin(nlines, ncols, begin_y, begin_x) on a screen of scr.h lines
\* and scr.w columns: a negative argument fails, and a zero nlines or ncols
\* stands for "up to the screen edge" (LINES - begin_y, COLS - begin_x).
newwin(scr, nlines, ncols, begin_y, begin_x) ==
    IF begin_y < 0 \/ begin_x < 0 \/ nlines < 0 \/ ncols < 0 THEN nullptr
    ELSE LET h == IF nlines = 0 THEN scr.h - begin_y ELSE nlines
             w == IF ncols = 0 THEN scr.w - begin_x ELSE ncols
         IN  IF h <= 0 \/ w <= 0 THEN nullptr
             ELSE Ptr([x |-> begin_x, y |-> begin_y, w |-> w, h |-> h])

\* The rectangle UIManager::create_windows asks newwin for, per window.
Regions(l) ==
    [top_bar_win_ |-> [x |-> 0, y |-> 0, w |-> l.term_width, h |-> l.top_bar_height],
     left_nav_win_ |-> [x |-> 0, y |-> l.main_y, w |-> l.left_width, h |-> l.main_height],
     main_panel_win_ |-> [x |-> l.main_x, y |-> l.main_y,
                          w |-> l.main_width, h |-> l.main_height],
     right_sidebar_win_ |-> [x |-> l.main_x + l.main_width, y |-> l.main_y,
                             w |-> l.right_width, h |-> l.main_height],
     status_bar_win_ |-> [x |-> 0, y |-> l.term_height - l.status_bar_height,
                          w |-> l.term_width, h |-> l.status_bar_height]]

\* UIManager::create_windows: the five windows built from layout l.
create_windows(scr, l) ==
    [n \in DOMAIN Regions(l) |->
        newwin(scr, Regions(l)[n].h, Regions(l)[n].w, Regions(l)[n].y, Regions(l)[n].x)]

\* A line nothing is written on, as in a window newwin has just made or
\* werase has cleared.
Blank == [cls |-> "", text |-> "", src |-> "", item |-> -1]

\* The content of a window that newwin has just made (nothing, if newwin
\* failed).
NewSurface(win) ==
    IF win = nullptr THEN [r \in {} |-> Blank]
    ELSE [r \in 0 .. (Deref(win).h - 1) |-> Blank]

WindowNames == {"top_bar_win_", "left_nav_win_", "main_panel_win_",
                "right_sidebar_win_", "status_bar_win_"}

\* UIManager::init: the layout is calculated on the freshly constructed
\* layout_ member and the windows are created.
UIManagerInit(w, h) ==
    /\ stdscr = [w |-> w, h |-> h]
    /\ layout_ = calculate(LayoutDefaults, w, h)
    /\ windows = create_windows([w |-> w, h |-> h], calculate(LayoutDefaults, w, h))
    /\ surface = NewSurface(windows["main_panel_win_"])

\* UIManager::update_layout, run when getch returned KEY_RESIZE and curses
\* has taken over the new terminal size (w, h).
update_layout(w, h) ==
    /\ stdscr' = [w |-> w, h |-> h]
    /\ IF h # layout_.term_height \/ w # layout_.term_width
       THEN /\ layout_' = calculate(layout_, w, h)
            /\ windows' = create_windows([w |-> w, h |-> h], calculate(layout_, w, h))
            /\ surface' = NewSurface(windows'["main_panel_win_"])
       ELSE UNCHANGED <<layout_, windows, surface>>

(***************************************************************************)
(* Workspaces and panels                                                   *)
(***************************************************************************)

\* WorkspaceManager::default_workspaces: workspace id -> ordered panel ids.
default_workspaces ==
    [overview |-> <<"overview", "regime_stab", "live_system">>,
     trading |-> <<"portfolio_risk", "execution", "fragility", "terminal">>,
     research |-> <<"assessment_universe", "meta_experiments", "ant_hill">>,
     monitoring |-> <<"live_system", "regime_stab", "portfolio_risk", "execution", "geo">>,
     global |-> <<"geo", "regime_stab", "fragility">>]

\* WorkspaceManager::get_workspace_ids: the keys of the std::map, which
\* iterates in ascending key order.
get_workspace_ids == <<"global", "monitoring", "overview", "research", "trading">>

\* WorkspaceManager::get_workspace: null for an id that is not registered.
get_workspace(id) ==
    IF id \in DOMAIN default_workspaces
    THEN Ptr([id |-> id, panel_ids |-> default_workspaces[id]])
    ELSE nullptr

\* WorkspaceManager::get_panels.
get_panels(id) ==
    IF get_workspace(id) # nullptr THEN Deref(get_workspace(id)).panel_ids ELSE <<>>

\* Workspace ids a caller may pass to switch_workspace.
WorkspaceArgs == (DOMAIN default_workspaces) \cup {"nowhere"}

\* Outcome of one ApiClient call: the parsed document, or std::nullopt when
\* the request failed or the body was not JSON (ApiClient::handle_response).
Documents == {"DOC"}
FetchResults == Documents \cup {nullopt}
Endpoints == {"get_status_overview", "get_status_regime", "get_status_stability",
              "get_status_execution", "get_status_universe"}
Fetches == [Endpoints -> FetchResults]
AllUnavailable == [e \in Endpoints |-> nullopt]

\* The ApiClient calls each refresh() makes.
CalledEndpoints(cls) ==
    CASE cls = "OverviewPanel" ->
            {"get_status_overview", "get_status_regime", "get_status_stability"}
      [] cls = "RegimeStabPanel" -> {"get_status_regime"}
      [] cls = "LiveSystemPanel" -> {"get_status_overview"}
      [] cls = "ExecutionPanel" -> {"get_status_execution"}
      [] cls = "AssessmentUniversePanel" -> {"get_status_universe"}
      [] OTHER -> {}

\* The outcomes to tell apart for a refresh of a cls panel: a call that is
\* not made has no outcome.
FetchesFor(cls) ==
    {f \in Fetches : \A e \in Endpoints \ CalledEndpoints(cls) : f[e] = nullopt}

\* A std::vector member, kept as where its elements came from and how many
\* there are.
EmptyList == [src |-> "empty", len |-> 0]
MockList(n) == [src |-> "mock", len |-> n]
DocListLen == 2
DocList(d) == [src |-> d, len |-> DocListLen]

\* Number of panel objects whose lifecycle is followed; a new object takes
\* the slot after the one of the object it replaces.
MaxInstances == 2
Instances == 0 .. (MaxInstances - 1)

\* Data members of each panel class as the constructors leave them.
InitialData(cls) ==
    CASE cls = "OverviewPanel" ->
            [overview_data_ |-> nullopt, regime_data_ |-> nullopt,
             stability_data_ |-> nullopt, error_message_ |-> ""]
      [] cls = "RegimeStabPanel" ->
            [regimes_ |-> EmptyList, transitions_ |-> EmptyList,
             current_regime_ |-> "", overall_fragility_ |-> "0.0"]
      [] cls = "LiveSystemPanel" ->
            [metrics_ |-> EmptyList, recent_logs_ |-> EmptyList,
             system_status_ |-> "", scroll_offset_ |-> 0]
      [] cls = "PortfolioRiskPanel" ->
            [risk_metrics_ |-> EmptyList, positions_ |-> EmptyList,
             total_portfolio_value_ |-> "0.0", total_pnl_ |-> "0.0"]
      [] cls = "ExecutionPanel" ->
            [recent_orders_ |-> EmptyList, scroll_offset_ |-> 0]
      [] cls = "AssessmentUniversePanel" ->
            [members_ |-> EmptyList, strategy_id_ |-> "MAIN", scroll_offset_ |-> 0,
             total_count_ |-> 0, active_count_ |-> 0]
      [] cls = "MetaExperimentsPanel" ->
            [experiments_ |-> EmptyList, scroll_offset_ |-> 0]
      [] cls = "AntHillPanel" ->
            [scenes_ |-> EmptyList]

\* The panel_id each class passes to the BasePanel constructor.
ClassPanelId(cls) ==
    CASE cls = "OverviewPanel" -> "overview"
      [] cls = "RegimeStabPanel" -> "regime_stab"
      [] cls = "LiveSystemPanel" -> "live_system"
      [] cls = "PortfolioRiskPanel" -> "portfolio_risk"
      [] cls = "ExecutionPanel" -> "execution"
      [] cls = "AssessmentUniversePanel" -> "assessment_universe"
      [] cls = "MetaExperimentsPanel" -> "meta_experiments"
      [] cls = "AntHillPanel" -> "ant_hill"

PanelClasses == {"OverviewPanel", "RegimeStabPanel", "LiveSystemPanel",
                 "PortfolioRiskPanel", "ExecutionPanel", "AssessmentUniversePanel",
                 "MetaExperimentsPanel", "AntHillPanel"}

\* BasePanel::BasePanel with the member initialisers of base_panel.hpp; inst
\* names the object.
BasePanel(cls, inst) ==
    [cls |-> cls, inst |-> inst, panel_id_ |-> ClassPanelId(cls),
     needs_refresh_ |-> TRUE, scroll_offset_ |-> 0, max_scroll_ |-> 0,
     data |-> InitialData(cls)]

\* The panel ids Application::create_panel has a class for.
KnownPanelIds == {"overview", "regime_stab", "live_system", "portfolio_risk", "execution",
                  "assessment_universe", "meta_experiments", "ant_hill"}

\* Application::create_panel: the class built for a panel id; an id without
\* a class of its own gets an OverviewPanel.
create_panel(panel_id, inst) ==
    CASE panel_id = "overview" -> BasePanel("OverviewPanel", inst)
      [] panel_id = "regime_stab" -> BasePanel("RegimeStabPanel", inst)
      [] panel_id = "live_system" -> BasePanel("LiveSystemPanel", inst)
      [] panel_id = "portfolio_risk" -> BasePanel("PortfolioRiskPanel", inst)
      [] panel_id = "execution" -> BasePanel("ExecutionPanel", inst)
      [] panel_id = "assessment_universe" -> BasePanel("AssessmentUniversePanel", inst)
      [] panel_id = "meta_experiments" -> BasePanel("MetaExperimentsPanel", inst)
      [] panel_id = "ant_hill" -> BasePanel("AntHillPanel", inst)
      [] OTHER -> BasePanel("OverviewPanel", inst)

mark_dirty(p) == [p EXCEPT !.needs_refresh_ = TRUE]
mark_clean(p) == [p EXCEPT !.needs_refresh_ = FALSE]

\* BasePanel::on_activated / on_deactivated.
on_activated(p) == mark_dirty(p)
on_deactivated(p) == p

(***************************************************************************)
(* refresh() of each panel class; f gives the outcome of each ApiClient    *)
(* call made during the refresh                                            *)
(***************************************************************************)

\* OverviewPanel::refresh.
OverviewPanel_refresh(p, f) ==
    IF f["get_status_overview"] = nullopt
    THEN mark_clean([p EXCEPT !.data.overview_data_ = "MOCK_OVERVIEW",
                              !.data.regime_data_ = "MOCK_REGIME",
                              !.data.error_message_ = ""])
    ELSE mark_clean([p EXCEPT !.data.overview_data_ = f["get_status_overview"],
                              !.data.regime_data_ = f["get_status_regime"],
                              !.data.stability_data_ = f["get_status_stability"],
                              !.data.error_message_ = ""])

\* RegimeStabPanel::parse_regime_data for a well-formed document.
parse_regime_data(p, doc) ==
    [p EXCEPT !.data.regimes_ = DocList(doc), !.data.transitions_ = DocList(doc),
              !.data.current_regime_ = doc, !.data.overall_fragility_ = doc]

\* RegimeStabPanel::refresh, as it would be if the fallback did not reload
\* transitions_.
RegimeStabPanel_refresh_keeps_transitions(p, f) ==
    IF f["get_status_regime"] # nullopt
    THEN parse_regime_data(p, f["get_status_regime"])
    ELSE [p EXCEPT !.data.current_regime_ = "RISK_ON",
                   !.data.overall_fragility_ = "0.42",
                   !.data.regimes_ = MockList(4)]

\* RegimeStabPanel::refresh.
RegimeStabPanel_refresh(p, f) ==
    IF f["get_status_regime"] # nullopt
    THEN parse_regime_data(p, f["get_status_regime"])
    ELSE [p EXCEPT !.data.current_regime_ = "RISK_ON",
                   !.data.overall_fragility_ = "0.42",
                   !.data.regimes_ = MockList(4),
                   !.data.transitions_ = MockList(6)]

\* LiveSystemPanel::parse_system_data for a well-formed document.
parse_system_data(p, doc) ==
    [p EXCEPT !.data.metrics_ = DocList(doc), !.data.system_status_ = doc]

\* LiveSystemPanel::refresh.
LiveSystemPanel_refresh(p, f) ==
    IF f["get_status_overview"] # nullopt
    THEN parse_system_data(p, f["get_status_overview"])
    ELSE [p EXCEPT !.data.system_status_ = "HEALTHY",
                   !.data.metrics_ = MockList(8),
                   !.data.recent_logs_ = MockList(8)]

\* PortfolioRiskPanel::refresh.
PortfolioRiskPanel_refresh(p, f) ==
    [p EXCEPT !.data.risk_metrics_ = MockList(6), !.data.positions_ = MockList(5),
              !.data.total_portfolio_value_ = "328625", !.data.total_pnl_ = "6925"]

\* ExecutionPanel::refresh, as it would be if it loaded the orders of a
\* response it received.
ExecutionPanel_refresh_loads_response(p, f) ==
    IF f["get_status_execution"] # nullopt
    THEN [p EXCEPT !.data.recent_orders_ = DocList(f["get_status_execution"])]
    ELSE [p EXCEPT !.data.recent_orders_ = MockList(15)]

\* ExecutionPanel::refresh: the response is only logged.
ExecutionPanel_refresh(p, f) ==
    [p EXCEPT !.data.recent_orders_ = MockList(15)]

\* AssessmentUniversePanel::refresh: the response is only logged; 12 of the
\* 15 sample members have status "IN".
AssessmentUniversePanel_refresh(p, f) ==
    [p EXCEPT !.data.members_ = MockList(15), !.data.total_count_ = 15,
              !.data.active_count_ = 12]

\* MetaExperimentsPanel::refresh.
MetaExperimentsPanel_refresh(p, f) ==
    [p EXCEPT !.data.experiments_ = MockList(5)]

\* AntHillPanel::refresh.
AntHillPanel_refresh(p, f) ==
    [p EXCEPT !.data.scenes_ = MockList(4)]

\* The virtual call panel->refresh(api_client).
refresh(p, f) ==
    CASE p.cls = "OverviewPanel" -> OverviewPanel_refresh(p, f)
      [] p.cls = "RegimeStabPanel" -> RegimeStabPanel_refresh(p, f)
      [] p.cls = "LiveSystemPanel" -> LiveSystemPanel_refresh(p, f)
      [] p.cls = "PortfolioRiskPanel" -> PortfolioRiskPanel_refresh(p, f)
      [] p.cls = "ExecutionPanel" -> ExecutionPanel_refresh(p, f)
      [] p.cls = "AssessmentUniversePanel" -> AssessmentUniversePanel_refresh(p, f)
      [] p.cls = "MetaExperimentsPanel" -> MetaExperimentsPanel_refresh(p, f)
      [] p.cls = "AntHillPanel" -> AntHillPanel_refresh(p, f)

(***************************************************************************)
(* handle_input() of each panel class                                      *)
(***************************************************************************)

Min(a, b) == IF a < b THEN a ELSE b
Max(a, b) == IF a > b THEN a ELSE b

ScrollKeys == {"KEY_UP", "KEY_DOWN", "KEY_PPAGE", "KEY_NPAGE", "KEY_HOME", "KEY_END"}
PanelKeys == ScrollKeys \cup {"x"}

PageStep == 10

\* BasePanel::handle_input: the panel after the key, and whether the key
\* was consumed.
BasePanel_handle_input(p, ch) ==
    CASE ch = "KEY_UP" ->
            IF p.scroll_offset_ > 0
            THEN [panel |-> [p EXCEPT !.scroll_offset_ = @ - 1], consumed |-> TRUE]
            ELSE [panel |-> p, consumed |-> FALSE]
      [] ch = "KEY_DOWN" ->
            IF p.scroll_offset_ < p.max_scroll_
            THEN [panel |-> [p EXCEPT !.scroll_offset_ = @ + 1], consumed |-> TRUE]
            ELSE [panel |-> p, consumed |-> FALSE]
      [] ch = "KEY_PPAGE" ->
            [panel |-> [p EXCEPT !.scroll_offset_ = Max(0, @ - PageStep)],
             consumed |-> TRUE]
      [] ch = "KEY_NPAGE" ->
            [panel |-> [p EXCEPT !.scroll_offset_ = Min(p.max_scroll_, @ + PageStep)],
             consumed |-> TRUE]
      [] ch = "KEY_HOME" ->
            [panel |-> [p EXCEPT !.scroll_offset_ = 0], consumed |-> TRUE]
      [] ch = "KEY_END" ->
            [panel |-> [p EXCEPT !.scroll_offset_ = p.max_scroll_], consumed |-> TRUE]
      [] OTHER -> [panel |-> p, consumed |-> FALSE]

\* Rows the scrolling subclasses keep below the offset (the literal 10 in
\* their KEY_DOWN guard).
ListWindow == 10

\* The handle_input of the scrolling subclasses, as it would be without the
\* guard of KEY_UP.
ListPanel_handle_input_unguarded_up(p, ch, len) ==
    CASE ch = "KEY_UP" ->
            [panel |-> [p EXCEPT !.data.scroll_offset_ = @ - 1], consumed |-> TRUE]
      [] ch = "KEY_DOWN" ->
            [panel |-> IF p.data.scroll_offset_ + ListWindow < len
                       THEN [p EXCEPT !.data.scroll_offset_ = @ + 1] ELSE p,
             consumed |-> TRUE]
      [] OTHER -> [panel |-> p, consumed |-> FALSE]

\* LiveSystemPanel / ExecutionPanel / AssessmentUniversePanel::handle_input:
\* they scroll their own scroll_offset_ member over the list of len entries.
ListPanel_handle_input(p, ch, len) ==
    CASE ch = "KEY_UP" ->
            [panel |-> IF p.data.scroll_offset_ > 0
                       THEN [p EXCEPT !.data.scroll_offset_ = @ - 1] ELSE p,
             consumed |-> TRUE]
      [] ch = "KEY_DOWN" ->
            [panel |-> IF p.data.scroll_offset_ + ListWindow < len
                       THEN [p EXCEPT !.data.scroll_offset_ = @ + 1] ELSE p,
             consumed |-> TRUE]
      [] OTHER -> [panel |-> p, consumed |-> FALSE]

\* RegimeStabPanel::handle_input.
RegimeStabPanel_handle_input(p, ch) ==
    [panel |-> p, consumed |-> ch \in {"KEY_UP", "KEY_DOWN"}]

\* PortfolioRiskPanel / MetaExperimentsPanel / AntHillPanel::handle_input.
Ignoring_handle_input(p, ch) == [panel |-> p, consumed |-> FALSE]

\* The virtual call panel->handle_input(ch).
handle_input(p, ch) ==
    CASE p.cls = "OverviewPanel" -> BasePanel_handle_input(p, ch)
      [] p.cls = "RegimeStabPanel" -> RegimeStabPanel_handle_input(p, ch)
      [] p.cls = "LiveSystemPanel" ->
            ListPanel_handle_input(p, ch, p.data.recent_logs_.len)
      [] p.cls = "ExecutionPanel" ->
            ListPanel_handle_input(p, ch, p.data.recent_orders_.len)
      [] p.cls = "AssessmentUniversePanel" ->
            ListPanel_handle_input(p, ch, p.data.members_.len)
      [] OTHER -> Ignoring_handle_input(p, ch)

\* The scroll offset a panel renders with: the subclasses that declare their
\* own scroll_offset_ use that one, the others the BasePanel member.
OwnScrollClasses == {"LiveSystemPanel", "ExecutionPanel", "AssessmentUniversePanel",
                     "MetaExperimentsPanel"}
ScrollOffset(p) ==
    IF p.cls \in OwnScrollClasses THEN p.data.scroll_offset_ ELSE p.scroll_offset_

\* The list a scrolling panel renders from its scroll offset on.
ScrolledList(p) ==
    CASE p.cls = "LiveSystemPanel" -> p.data.recent_logs_
      [] p.cls = "ExecutionPanel" -> p.data.recent_orders_
      [] p.cls = "AssessmentUniversePanel" -> p.data.members_
      [] OTHER -> EmptyList

(***************************************************************************)
(* render() of each panel class.  The content of a curses window is kept   *)
(* line by line: what a line shows is the last text written on it, so a    *)
(* line that one render writes in part counts as written by it in full.    *)
(* No render reads anything but the window's size and its panel's members, *)
(* and none assigns a member.                                              *)
(***************************************************************************)

\* A line of fixed text, a line showing members, and a line showing element
\* i of a vector member.
Text(cls, text) == [cls |-> cls, text |-> text, src |-> "", item |-> -1]
Value(cls, text, v) == [cls |-> cls, text |-> text, src |-> v, item |-> -1]
Item(cls, member, list, i) == [cls |-> cls, text |-> member, src |-> list.src, item |-> i]

\* werase(window).
werase(surf) == [r \in DOMAIN surf |-> Blank]

\* A run of mvwprintw / mvwhline calls, W being the set of <<line, text>>
\* written; a write to a line outside the window fails and changes nothing.
Draw(surf, W) ==
    [r \in DOMAIN surf |->
        IF \E w \in W : w[1] = r THEN (CHOOSE w \in W : w[1] = r)[2] ELSE surf[r]]

\* The lines a loop over a vector writes: elements first, first + 1, ... on
\* lines y, y + 1, ..., at most max of them.
ListRows(cls, member, list, first, y, max) ==
    {<<y + k, Item(cls, member, list, first + k)>> :
        k \in 0 .. (Min(list.len - first, max) - 1)}

\* The same for a loop written "draw; y++; if (y >= height - 1) break;".
ListRowsUntil(cls, member, list, y, height) ==
    {<<y + k, Item(cls, member, list, k)>> :
        k \in {j \in 0 .. (list.len - 1) : j = 0 \/ y + j < height - 1}}

\* BasePanel::draw_border followed by BasePanel::draw_header.
draw_border_and_header(surf, cls) ==
    [r \in DOMAIN surf |-> IF r = 0 THEN Text(cls, "header") ELSE Text(cls, "border")]

\* OverviewPanel::render, the only render that erases the window first.
OverviewPanel_render(p, surf) ==
    LET c == "OverviewPanel"
        height == Cardinality(DOMAIN surf)
        framed == draw_border_and_header(werase(surf), c)
        doc == p.data.overview_data_
        kpis == {<<r, Value(c, "kpis", doc)>> : r \in {2, 4, 5, 6, 7, 8, 10, 11}}
        regimes == IF 12 < height - 2
                   THEN {<<12, Text(c, "rule")>>, <<14, Text(c, "regimes title")>>,
                         <<16, Text(c, "regimes header")>>, <<17, Text(c, "rule")>>}
                        \cup ListRows(c, "regimes", DocList(doc), 0, 18, DocListLen)
                        \cup (IF p.data.regime_data_ # nullopt
                              THEN {<<18 + DocListLen + 1,
                                      Value(c, "US Detail", p.data.regime_data_)>>}
                              ELSE {})
                   ELSE {}
        alerts == IF 12 < height - 2 /\ 22 < height - 2
                  THEN {<<22, Text(c, "rule")>>, <<24, Value(c, "alerts", doc)>>}
                       \cup ListRows(c, "alerts", DocList(doc), 0, 26, DocListLen)
                  ELSE {}
    IN  IF p.data.error_message_ # ""
        THEN Draw(framed, {<<3, Value(c, "Error", p.data.error_message_)>>})
        ELSE IF doc = nullopt
        THEN Draw(framed, {<<3, Text(c, "Loading data...")>>})
        ELSE Draw(framed, kpis \cup regimes \cup alerts)

\* RegimeStabPanel::render.
RegimeStabPanel_render(p, surf) ==
    LET c == "RegimeStabPanel"
        height == Cardinality(DOMAIN surf)
        y == 9 + p.data.regimes_.len + 2
        top == {<<0, Text(c, "title")>>, <<2, Text(c, "labels")>>,
                <<3, Value(c, "values", p.data.current_regime_)>>,
                <<5, Text(c, "All Regime States:")>>, <<7, Text(c, "header")>>,
                <<8, Text(c, "rule")>>}
               \cup ListRows(c, "regimes_", p.data.regimes_, 0, 9, p.data.regimes_.len)
        transitions ==
            IF y + 2 + p.data.transitions_.len < height - 1
            THEN {<<y, Text(c, "Key Regime Transitions:")>>, <<y + 2, Text(c, "header")>>,
                  <<y + 3, Text(c, "rule")>>}
                 \cup ListRowsUntil(c, "transitions_", p.data.transitions_, y + 4, height)
            ELSE {}
    IN  Draw(surf, top \cup transitions)

\* LiveSystemPanel::render.
LiveSystemPanel_render(p, surf) ==
    LET c == "LiveSystemPanel"
        height == Cardinality(DOMAIN surf)
        n == p.data.metrics_.len
        metrics_per_col == (n + 2) \div 3
        in_col1 == Min(n, metrics_per_col)
        y == 6 + 3 * in_col1 + 1
        top == {<<0, Text(c, "title")>>, <<2, Value(c, "status", p.data.system_status_)>>,
                <<4, Text(c, "System Metrics:")>>}
               \cup UNION {{<<6 + 3 * k, Item(c, "metrics_ name", p.data.metrics_, k)>>,
                            <<7 + 3 * k, Item(c, "metrics_ value", p.data.metrics_, k)>>} :
                           k \in 0 .. (in_col1 - 1)}
        logs == IF y + 4 < height
                THEN {<<y, Text(c, "Recent System Logs:")>>, <<y + 2, Text(c, "header")>>,
                      <<y + 3, Text(c, "rule")>>}
                     \cup ListRows(c, "recent_logs_", p.data.recent_logs_,
                                   p.data.scroll_offset_, y + 4, height - (y + 4) - 1)
                ELSE {}
    IN  Draw(surf, top \cup logs)

\* PortfolioRiskPanel::render.
PortfolioRiskPanel_render(p, surf) ==
    LET c == "PortfolioRiskPanel"
        height == Cardinality(DOMAIN surf)
        n == p.data.risk_metrics_.len
        y == 10 + n + 2
        top == {<<0, Text(c, "title")>>, <<2, Text(c, "labels")>>,
                <<3, Value(c, "values", p.data.total_portfolio_value_)>>,
                <<4, Text(c, "sparkline")>>, <<6, Text(c, "Risk Metrics:")>>,
                <<8, Text(c, "header")>>, <<9, Text(c, "rule")>>}
               \cup ListRows(c, "risk_metrics_", p.data.risk_metrics_, 0, 10, n)
        positions ==
            IF y + 3 < height
            THEN {<<y + 2, Text(c, "Top Positions:")>>, <<y + 4, Text(c, "header")>>,
                  <<y + 5, Text(c, "rule")>>}
                 \cup ListRowsUntil(c, "positions_", p.data.positions_, y + 6, height)
            ELSE {}
    IN  Draw(surf, top \cup positions)

\* ExecutionPanel::render.
ExecutionPanel_render(p, surf) ==
    LET c == "ExecutionPanel"
        height == Cardinality(DOMAIN surf)
        top == {<<0, Text(c, "title")>>, <<2, Text(c, "labels")>>,
                <<3, Value(c, "values", p.data.recent_orders_.src)>>,
                <<4, Text(c, "sparkline")>>, <<5, Text(c, "labels")>>,
                <<6, Value(c, "values", p.data.recent_orders_.src)>>,
                <<8, Text(c, "Recent Orders:")>>, <<10, Text(c, "header")>>,
                <<11, Text(c, "rule")>>}
    IN  Draw(surf, top \cup ListRows(c, "recent_orders_", p.data.recent_orders_,
                                     p.data.scroll_offset_, 12, height - 12 - 1))

\* AssessmentUniversePanel::render.
AssessmentUniversePanel_render(p, surf) ==
    LET c == "AssessmentUniversePanel"
        height == Cardinality(DOMAIN surf)
        max_rows == height - 9 - 1
        top == {<<0, Text(c, "title")>>, <<2, Text(c, "labels")>>,
                <<3, Value(c, "values", p.data.strategy_id_)>>, <<5, Text(c, "rule")>>,
                <<7, Text(c, "header")>>, <<8, Text(c, "rule")>>}
        indicator == IF p.data.members_.len > max_rows
                     THEN {<<height - 2, Item(c, "scroll indicator", p.data.members_,
                                              p.data.scroll_offset_ + 1)>>}
                     ELSE {}
    IN  Draw(Draw(surf, top \cup ListRows(c, "members_", p.data.members_,
                                          p.data.scroll_offset_, 9, max_rows)),
             indicator)

\* MetaExperimentsPanel::render.
MetaExperimentsPanel_render(p, surf) ==
    LET c == "MetaExperimentsPanel"
    IN  Draw(surf, {<<0, Text(c, "title")>>, <<3, Text(c, "header")>>,
                    <<4, Text(c, "rule")>>}
                   \cup ListRows(c, "experiments_", p.data.experiments_, 0, 5,
                                 p.data.experiments_.len))

\* AntHillPanel::render.
AntHillPanel_render(p, surf) ==
    LET c == "AntHillPanel"
    IN  Draw(surf, {<<0, Text(c, "title")>>, <<3, Text(c, "header")>>,
                    <<4, Text(c, "rule")>>}
                   \cup ListRows(c, "scenes_", p.data.scenes_, 0, 5, p.data.scenes_.len))

\* The virtual call panel->render(window): the window content it leaves.
render(p, surf) ==
    CASE p.cls = "OverviewPanel" -> OverviewPanel_render(p, surf)
      [] p.cls = "RegimeStabPanel" -> RegimeStabPanel_render(p, surf)
      [] p.cls = "LiveSystemPanel" -> LiveSystemPanel_render(p, surf)
      [] p.cls = "PortfolioRiskPanel" -> PortfolioRiskPanel_render(p, surf)
      [] p.cls = "ExecutionPanel" -> ExecutionPanel_render(p, surf)
      [] p.cls = "AssessmentUniversePanel" -> AssessmentUniversePanel_render(p, surf)
      [] p.cls = "MetaExperimentsPanel" -> MetaExperimentsPanel_render(p, surf)
      [] p.cls = "AntHillPanel" -> AntHillPanel_render(p, surf)

\* UIManager::render_main_panel: the content of main_panel_win_ afterwards.
render_main_panel(win, panel, surf) ==
    IF win = nullptr THEN surf
    ELSE IF panel # nullptr THEN render(Deref(panel), surf)
    ELSE Draw([r \in DOMAIN surf |-> Text("UIManager", "border")],
              {<<2, Text("UIManager", "No active panel")>>})

\* The curses output call with which a render_* function of UIManager ends:
\* none if the window is missing (the function returns at once).
Staged(wins, name) ==
    IF wins[name] = nullptr THEN <<>> ELSE <<[op |-> "wnoutrefresh", win |-> name]>>

\* UIManager::render_top_bar: its output calls.
render_top_bar(wins) == Staged(wins, "top_bar_win_")

\* UIManager::render_all, as it would be if it updated the screen before
\* drawing the windows.
render_all_update_first(wins) ==
    <<[op |-> "doupdate", win |-> ""]>>
    \o Staged(wins, "left_nav_win_") \o Staged(wins, "main_panel_win_")
    \o Staged(wins, "right_sidebar_win_") \o Staged(wins, "status_bar_win_")

\* UIManager::render_all: its output calls.
render_all(wins) ==
    Staged(wins, "left_nav_win_") \o Staged(wins, "main_panel_win_")
    \o Staged(wins, "right_sidebar_win_") \o Staged(wins, "status_bar_win_")
    \o <<[op |-> "doupdate", win |-> ""]>>

(***************************************************************************)
(* Glyph renderer (utils/braille_chart.cpp).  A series is a sequence of    *)
(* integers, a string of block characters the sequence of their indices in *)
(* the ramp, and a string of braille characters the sequence of its lines, *)
(* each the sequence of the characters' dot masks; "" is <<>>.  A double   *)
(* that is not an integer is kept as a ratio of integers; for the series   *)
(* considered here the quotients the code truncates are the exact ones,    *)
(* except those listed in RoundedDown.                                     *)
(***************************************************************************)

\* Index in blocks[] of the middle bar character that a flat series is drawn
\* with, and of the full block.
MidBlock == 4
FullBlock == 8

\* const char* blocks[] of inline_sparkline (bars_chars[] of bars is the
\* same list).
blocks == <<"space", "one eighth", "one quarter", "three eighths", "half",
            "five eighths", "three quarters", "seven eighths", "full">>

\* BRAILLE_DOTS, left column then right column.
BRAILLE_DOTS == <<1, 2, 4, 8, 16, 32, 64, 128>>

\* std::min_element / std::max_element of a non-empty vector.
min_element(s) == CHOOSE x \in {s[i] : i \in DOMAIN s} : \A i \in DOMAIN s : x <= s[i]
max_element(s) == CHOOSE x \in {s[i] : i \in DOMAIN s} : \A i \in DOMAIN s : x >= s[i]

\* if (v < lo) v = lo; if (v > hi) v = hi;
Clamp(v, lo, hi) == IF v < lo THEN lo ELSE IF v > hi THEN hi ELSE v

\* static_cast<int> of a NaN is undefined: the values a build can give it.
NaNCast == {-2147483647 - 1, 0, 2147483647}

\* <<c, lo, m>>: with doubles, (c/m - lo/m) / (m/m - lo/m) * 8 comes out just
\* below its exact value, a whole number, and truncates to one less.
RoundedDown == {<<2, 1, 3>>, <<3, 1, 5>>, <<4, 2, 6>>, <<5, 2, 6>>, <<4, 1, 7>>,
                <<6, 5, 7>>}

\* static_cast<int>(val * 8) for val = (v - min_val) / (max_val - min_val),
\* the doubles being v / unit, min_val / unit and max_val / unit.
BlockIndex(v, min_val, max_val, unit) ==
    LET exact == (FullBlock * (v - min_val)) \div (max_val - min_val)
    IN  IF unit > 1 /\ max_val = unit /\ <<v, min_val, unit>> \in RoundedDown
        THEN exact - 1
        ELSE exact

\* inline_sparkline, as it would be if a flat series were drawn with the
\* lowest block.
inline_sparkline_flat_as_minimum(data, unit, width) ==
    IF data = <<>> \/ width = 0 THEN <<>>
    ELSE LET min_val == min_element(data)
             max_val == max_element(data)
         IN  IF min_val = max_val
             THEN [i \in 1 .. width |-> 0]
             ELSE [i \in 1 .. width |->
                      LET idx == ((i - 1) * Len(data)) \div width
                      IN  Clamp(BlockIndex(data[idx + 1], min_val, max_val, unit),
                                0, FullBlock)]

\* inline_sparkline on the doubles data[i] / unit.
inline_sparkline_scaled(data, unit, width) ==
    IF data = <<>> \/ width = 0 THEN <<>>
    ELSE LET min_val == min_element(data)
             max_val == max_element(data)
         IN  IF min_val = max_val
             THEN [i \in 1 .. width |-> MidBlock]
             ELSE [i \in 1 .. width |->
                      LET idx == ((i - 1) * Len(data)) \div width
                      IN  Clamp(BlockIndex(data[idx + 1], min_val, max_val, unit),
                                0, FullBlock)]

\* inline_sparkline(data, width).
inline_sparkline(data, width) == inline_sparkline_scaled(data, 1, width)

\* BrailleChart::normalize(data, 0, 0): each value as <<numerator,
\* denominator>>.
normalize(data) ==
    IF data = <<>> THEN <<>>
    ELSE LET min_val == min_element(data)
             max_val == max_element(data)
         IN  IF min_val = max_val
             THEN [i \in 1 .. Len(data) |-> <<1, 2>>]
             ELSE [i \in 1 .. Len(data) |-> <<data[i] - min_val, max_val - min_val>>]

\* BrailleChart::sparkline.
sparkline(data, width, height) ==
    IF data = <<>> \/ width = 0 \/ height = 0 THEN <<>>
    ELSE LET normalized == normalize(data)
             pixel_width == width * 2
             pixel_height == height * 4
             resampled ==
                 IF Len(data) <= pixel_width THEN normalized
                 ELSE [i \in 1 .. pixel_width |->
                          normalized[(((i - 1) * Len(data)) \div pixel_width) + 1]]
             \* static_cast<int>((1.0 - resampled[x]) * (pixel_height - 1))
             y(x) == ((resampled[x][2] - resampled[x][1]) * (pixel_height - 1))
                         \div resampled[x][2]
             \* grid[row][x], x counted from 1
             grid(row, x) ==
                 /\ x <= Len(resampled)
                 /\ x <= pixel_width
                 /\ y(x) >= 0 /\ y(x) < pixel_height
                 /\ y(x) \div 4 = row
                 /\ row < height
             \* the dots of one column of a character: those of the dy with
             \* row * 4 + dy < grid.size(), grid having height rows
             column(row, x, first) ==
                 IF grid(row, x)
                 THEN (IF row * 4 + 0 < height THEN BRAILLE_DOTS[first + 1] ELSE 0)
                      + (IF row * 4 + 1 < height THEN BRAILLE_DOTS[first + 2] ELSE 0)
                      + (IF row * 4 + 2 < height THEN BRAILLE_DOTS[first + 3] ELSE 0)
                      + (IF row * 4 + 3 < height THEN BRAILLE_DOTS[first + 4] ELSE 0)
                 ELSE 0
         IN  [r \in 1 .. height |->
                [c \in 1 .. width |->
                    column(r - 1, (c - 1) * 2 + 1, 0) + column(r - 1, (c - 1) * 2 + 2, 4)]]

\* trend_indicator.
trend_indicator(data, width, height) ==
    IF height = 1 THEN inline_sparkline(data, width)
    ELSE sparkline(data, width, height)

\* BrailleChart::bars: one block index per value.
bars(values, max_height) ==
    IF values = <<>> \/ max_height = 0 THEN <<>>
    ELSE LET max_val == IF max_element(values) = 0 THEN 1 ELSE max_element(values)
         IN  [i \in 1 .. Len(values) |->
                 Clamp((FullBlock * values[i]) \div max_val, 0, FullBlock)]

\* The bin of val in BrailleChart::histogram; with bin_width 0 the quotient
\* is 0.0 / 0.0, a NaN, and nan is what the cast makes of it.
bin_of(val, min_val, max_val, bins, nan) ==
    LET bin == IF max_val = min_val THEN nan
               ELSE ((val - min_val) * bins) \div (max_val - min_val)
    IN  IF bin >= bins THEN bins - 1 ELSE IF bin < 0 THEN 0 ELSE bin

\* bin_counts of BrailleChart::histogram, bin 0 first.
bin_counts(data, bins, nan) ==
    LET min_val == min_element(data)
        max_val == max_element(data)
    IN  [b \in 1 .. bins |->
            Cardinality({i \in DOMAIN data :
                bin_of(data[i], min_val, max_val, bins, nan) = b - 1})]

\* BrailleChart::histogram; height is not used.
histogram(data, bins, width, height, nan) ==
    IF data = <<>> \/ bins = 0 THEN <<>>
    ELSE LET counts == bin_counts(data, bins, nan)
         IN  inline_sparkline_scaled(counts, max_element(counts), width)

\* The ranges a call divides by (the divisors of its floating-point
\* divisions): inline_sparkline and normalize return the flat line before
\* they reach the division, bars replaces a maximum of 0 by 1.0, histogram
\* divides by bin_width = range / bins and by max_count before it delegates.
RECURSIVE ranges(_, _, _, _, _, _)
ranges(fn, data, width, height, bins, nan) ==
    CASE fn = "inline_sparkline" ->
            IF data = <<>> \/ width = 0 \/ min_element(data) = max_element(data) THEN {}
            ELSE {max_element(data) - min_element(data)}
      [] fn = "sparkline" ->
            IF data = <<>> \/ width = 0 \/ height = 0
               \/ min_element(data) = max_element(data) THEN {}
            ELSE {max_element(data) - min_element(data)}
      [] fn = "trend_indicator" ->
            IF height = 1 THEN ranges("inline_sparkline", data, width, height, bins, nan)
            ELSE ranges("sparkline", data, width, height, bins, nan)
      [] fn = "bars" ->
            IF data = <<>> \/ height = 0 THEN {}
            ELSE {IF max_element(data) = 0 THEN 1 ELSE max_element(data)}
      [] fn = "histogram" ->
            IF data = <<>> \/ bins = 0 THEN {}
            ELSE {max_element(data) - min_element(data),
                  max_element(bin_counts(data, bins, nan))}
                 \cup ranges("inline_sparkline", bin_counts(data, bins, nan), width,
                             height, bins, nan)

(***************************************************************************)
(* Screen manager and navigation controller.  The handlers call each other,*)
(* so each is an operator from the application state S (a record of the    *)
(* variables it may touch) to the state it leaves behind; f gives the      *)
(* outcome of the ApiClient calls and t the time of the call.              *)
(***************************************************************************)

ActiveInstances(lc) == {i \in Instances : lc[i] = "activated"}

Hook(name, inst, lc) == [hook |-> name, inst |-> inst, active |-> ActiveInstances(lc)]

\* UIManager::set_active_panel(panel), as it would be with the two hooks in
\* the other order.
set_active_panel_activate_first(ui, panel) ==
    LET lc1 == IF panel # nullptr
               THEN [ui.lifecycle EXCEPT ![Deref(panel).inst] = "activated"]
               ELSE ui.lifecycle
        h1  == IF panel # nullptr
               THEN <<Hook("on_activated", Deref(panel).inst, lc1)>> ELSE <<>>
        lc2 == IF ui.active_panel_ # nullptr
               THEN [lc1 EXCEPT ![Deref(ui.active_panel_).inst] = "deactivated"]
               ELSE lc1
        h2  == IF ui.active_panel_ # nullptr
               THEN <<Hook("on_deactivated", Deref(ui.active_panel_).inst, lc2)>>
               ELSE <<>>
    IN  [active_panel_ |-> IF panel # nullptr THEN Ptr(on_activated(Deref(panel)))
                           ELSE nullptr,
         hooks |-> h1 \o h2,
         lifecycle |-> lc2,
         active_panel_id_ |-> IF panel # nullptr THEN Deref(panel).panel_id_
                              ELSE ui.active_panel_id_]

\* UIManager::set_active_panel(panel).  ui holds active_panel_, the recorded
\* lifecycle of the panel objects and AppState's active panel id; the
\* previous object is destroyed by the move-assignment.
set_active_panel(ui, panel) ==
    LET lc1 == IF ui.active_panel_ # nullptr
               THEN [ui.lifecycle EXCEPT ![Deref(ui.active_panel_).inst] = "deactivated"]
               ELSE ui.lifecycle
        h1  == IF ui.active_panel_ # nullptr
               THEN <<Hook("on_deactivated", Deref(ui.active_panel_).inst, lc1)>>
               ELSE <<>>
        lc2 == IF panel # nullptr
               THEN [lc1 EXCEPT ![Deref(panel).inst] = "activated"]
               ELSE lc1
        h2  == IF panel # nullptr
               THEN <<Hook("on_activated", Deref(panel).inst, lc2)>> ELSE <<>>
    IN  [active_panel_ |-> IF panel # nullptr THEN Ptr(on_activated(Deref(panel)))
                           ELSE nullptr,
         hooks |-> h1 \o h2,
         lifecycle |-> lc2,
         active_panel_id_ |-> IF panel # nullptr THEN Deref(panel).panel_id_
                              ELSE ui.active_panel_id_]

\* The slot of the next panel object.
NextInstance(cur) ==
    IF cur = nullptr THEN 0 ELSE (Deref(cur).inst + 1) % MaxInstances

Event(ev, inst) == [ev |-> ev, inst |-> inst]

\* A call of switch_to_panel(panel_id).
RequestEvent(panel_id) == [ev |-> "switch_to_panel", inst |-> -1, id |-> panel_id]

\* The data source was unavailable for a refresh of a cls panel: every call
\* it made came back empty.
Unavailable(cls, f) == \A e \in CalledEndpoints(cls) : f[e] = nullopt

\* A refresh() call on panel p with outcomes f, the object being in
\* lifecycle state lc.
RefreshEvent(ev, p, f, lc) ==
    [ev |-> ev, inst |-> p.inst, unavailable |-> Unavailable(p.cls, f), lifecycle |-> lc]

\* Application::switch_to_panel, as it would be if it refreshed the new
\* panel again after the first refresh.
switch_to_panel_refreshes_twice(S, panel_id, f, t) ==
    LET inst  == NextInstance(S.active_panel_)
        once  == refresh(create_panel(panel_id, inst), f)
        panel == refresh(once, f)
        r     == set_active_panel(
                     [active_panel_ |-> S.active_panel_,
                      lifecycle |-> [S.lifecycle EXCEPT ![inst] = "constructed"],
                      active_panel_id_ |-> S.active_panel_id_],
                     Ptr(panel))
    IN  [S EXCEPT !.active_panel_ = r.active_panel_,
                  !.hooks = r.hooks,
                  !.lifecycle = r.lifecycle,
                  !.active_panel_id_ = panel_id,
                  !.lastAnyRefresh = t,
                  !.trace = @ \o <<RequestEvent(panel_id),
                                    Event("create_panel", inst),
                                    RefreshEvent("refresh", once, f, "constructed"),
                                    RefreshEvent("refresh", panel, f, "constructed"),
                                    Event("set_active_panel", inst)>>]

\* Application::switch_to_panel, as it would be without its own
\* AppState::set_active_panel(panel_id) call.
switch_to_panel_keeps_class_id(S, panel_id, f, t) ==
    LET inst  == NextInstance(S.active_panel_)
        panel == refresh(create_panel(panel_id, inst), f)
        r     == set_active_panel(
                     [active_panel_ |-> S.active_panel_,
                      lifecycle |-> [S.lifecycle EXCEPT ![inst] = "constructed"],
                      active_panel_id_ |-> S.active_panel_id_],
                     Ptr(panel))
    IN  [S EXCEPT !.active_panel_ = r.active_panel_,
                  !.hooks = r.hooks,
                  !.lifecycle = r.lifecycle,
                  !.active_panel_id_ = r.active_panel_id_,
                  !.lastAnyRefresh = t,
                  !.trace = @ \o <<RequestEvent(panel_id),
                                    Event("create_panel", inst),
                                    RefreshEvent("refresh", panel, f, "constructed"),
                                    Event("set_active_panel", inst)>>]

\* Application::switch_to_panel.
switch_to_panel(S, panel_id, f, t) ==
    LET inst  == NextInstance(S.active_panel_)
        panel == refresh(create_panel(panel_id, inst), f)
        r     == set_active_panel(
                     [active_panel_ |-> S.active_panel_,
                      lifecycle |-> [S.lifecycle EXCEPT ![inst] = "constructed"],
                      active_panel_id_ |-> S.active_panel_id_],
                     Ptr(panel))
    IN  [S EXCEPT !.active_panel_ = r.active_panel_,
                  !.hooks = r.hooks,
                  !.lifecycle = r.lifecycle,
                  !.active_panel_id_ = panel_id,
                  !.lastAnyRefresh = t,
                  !.trace = @ \o <<RequestEvent(panel_id),
                                    Event("create_panel", inst),
                                    RefreshEvent("refresh", panel, f, "constructed"),
                                    Event("set_active_panel", inst)>>]

\* Application::cycle_next_panel, as it would be if it stopped at the last
\* entry.
cycle_next_panel_no_wrap(S, f, t) ==
    IF S.current_panel_list_ = <<>> THEN S
    ELSE LET idx == Min(S.current_panel_index_ + 1, Len(S.current_panel_list_) - 1)
         IN  switch_to_panel([S EXCEPT !.current_panel_index_ = idx],
                             S.current_panel_list_[idx + 1], f, t)

\* Application::cycle_next_panel.
cycle_next_panel(S, f, t) ==
    IF S.current_panel_list_ = <<>> THEN S
    ELSE LET idx == (S.current_panel_index_ + 1) % Len(S.current_panel_list_)
         IN  switch_to_panel([S EXCEPT !.current_panel_index_ = idx],
                             S.current_panel_list_[idx + 1], f, t)

\* Application::cycle_prev_panel.
cycle_prev_panel(S, f, t) ==
    IF S.current_panel_list_ = <<>> THEN S
    ELSE LET idx == IF S.current_panel_index_ = 0
                    THEN Len(S.current_panel_list_) - 1
                    ELSE S.current_panel_index_ - 1
         IN  switch_to_panel([S EXCEPT !.current_panel_index_ = idx],
                             S.current_panel_list_[idx + 1], f, t)

\* Application::switch_workspace, as it would be if it kept the cycle
\* position of the workspace it leaves.
switch_workspace_keeps_index(S, workspace_id, f, t) ==
    IF get_workspace(workspace_id) = nullptr THEN S
    ELSE LET list == Deref(get_workspace(workspace_id)).panel_ids
             S1   == [S EXCEPT !.active_workspace_ = workspace_id,
                               !.current_panel_list_ = list]
         IN  IF list # <<>> THEN switch_to_panel(S1, list[1], f, t) ELSE S1

\* Application::switch_workspace, as it would be if it recorded the new
\* workspace before looking it up.
switch_workspace_sets_state_first(S, workspace_id, f, t) ==
    LET S0 == [S EXCEPT !.active_workspace_ = workspace_id]
    IN  IF get_workspace(workspace_id) = nullptr THEN S0
        ELSE LET list == Deref(get_workspace(workspace_id)).panel_ids
                 S1   == [S0 EXCEPT !.current_panel_list_ = list,
                                    !.current_panel_index_ = 0]
             IN  IF list # <<>> THEN switch_to_panel(S1, list[1], f, t) ELSE S1

\* Application::switch_workspace.
switch_workspace(S, workspace_id, f, t) ==
    IF get_workspace(workspace_id) = nullptr THEN S
    ELSE LET list == Deref(get_workspace(workspace_id)).panel_ids
             S1   == [S EXCEPT !.active_workspace_ = workspace_id,
                               !.current_panel_list_ = list,
                               !.current_panel_index_ = 0]
         IN  IF list # <<>> THEN switch_to_panel(S1, list[1], f, t) ELSE S1

\* std::find over a vector: the first position holding x, or 0 for end().
Find(seq, x) ==
    IF \E i \in 1 .. Len(seq) : seq[i] = x
    THEN CHOOSE i \in 1 .. Len(seq) : seq[i] = x /\ \A j \in 1 .. (i - 1) : seq[j] # x
    ELSE 0

\* Application::cycle_next_workspace, as it would be without the wrap-around.
cycle_next_workspace_no_wrap(S, f, t) ==
    LET ids == get_workspace_ids
        it  == Find(ids, S.active_workspace_)
    IN  IF ids = <<>> THEN S
        ELSE IF it = 0 THEN switch_workspace(S, ids[1], f, t)
        ELSE IF it + 1 > Len(ids) THEN switch_workspace(S, ids[it], f, t)
        ELSE switch_workspace(S, ids[it + 1], f, t)

\* Application::cycle_next_workspace.
cycle_next_workspace(S, f, t) ==
    LET ids == get_workspace_ids
        it  == Find(ids, S.active_workspace_)
    IN  IF ids = <<>> THEN S
        ELSE IF it = 0 THEN switch_workspace(S, ids[1], f, t)
        ELSE IF it + 1 > Len(ids) THEN switch_workspace(S, ids[1], f, t)
        ELSE switch_workspace(S, ids[it + 1], f, t)

\* The 'r' / 'R' case of Application::handle_input.
manual_refresh(S, f, t) ==
    IF S.active_panel_ # nullptr
    THEN [S EXCEPT !.active_panel_ = Ptr(refresh(Deref(S.active_panel_), f)),
                   !.lastAnyRefresh = t,
                   !.trace = Append(@, RefreshEvent("refresh", Deref(S.active_panel_), f,
                                   S.lifecycle[Deref(S.active_panel_).inst]))]
    ELSE S

\* The default case of Application::handle_input, as it would be if the key
\* reached the panel twice.
forward_to_panel_twice(S, ch) ==
    IF S.active_panel_ # nullptr
    THEN LET once == handle_input(Deref(S.active_panel_), ch).panel
         IN  [S EXCEPT !.active_panel_ = Ptr(handle_input(once, ch).panel),
                       !.trace = @ \o <<Event("handle_input", once.inst),
                                         Event("handle_input", once.inst)>>]
    ELSE S

\* The default case of Application::handle_input.
forward_to_panel(S, ch) ==
    IF S.active_panel_ # nullptr
    THEN [S EXCEPT !.active_panel_ = Ptr(handle_input(Deref(S.active_panel_), ch).panel),
                   !.trace = Append(@, Event("handle_input", Deref(S.active_panel_).inst))]
    ELSE S

\* The auto-refresh period of Application::handle_auto_refresh (10s).
refresh_interval == 10

\* Application::handle_auto_refresh, as it would be with a shorter period.
handle_auto_refresh_early(S, f, t) ==
    IF t - S.last_refresh_ >= refresh_interval - 1
    THEN LET S1 == IF S.active_panel_ # nullptr
                   THEN [S EXCEPT !.active_panel_ = Ptr(refresh(Deref(S.active_panel_), f)),
                                  !.lastAnyRefresh = t,
                                  !.trace = Append(@, RefreshEvent("auto_refresh",
                                                   Deref(S.active_panel_), f,
                                                   S.lifecycle[Deref(S.active_panel_).inst]))]
                   ELSE S
         IN  [S1 EXCEPT !.last_refresh_ = t]
    ELSE S

\* Application::handle_auto_refresh, called at time t.
handle_auto_refresh(S, f, t) ==
    IF t - S.last_refresh_ >= refresh_interval
    THEN LET S1 == IF S.active_panel_ # nullptr
                   THEN [S EXCEPT !.active_panel_ = Ptr(refresh(Deref(S.active_panel_), f)),
                                  !.lastAnyRefresh = t,
                                  !.trace = Append(@, RefreshEvent("auto_refresh",
                                                   Deref(S.active_panel_), f,
                                                   S.lifecycle[Deref(S.active_panel_).inst]))]
                   ELSE S
         IN  [S1 EXCEPT !.last_refresh_ = t]
    ELSE S

(***************************************************************************)
(* The program as a state machine                                          *)
(***************************************************************************)

\* The clock stops advancing at MaxTime.
MaxTime == 21
\* Seconds that may pass during one loop iteration.
MaxSleep == 2

\* Terminal size at start-up and the sizes a resize may give while the
\* loop runs.
StartSizes == {<<100, 40>>}
LoopSizes == {<<200, 40>>}

AppS ==
    [active_workspace_ |-> active_workspace_, active_panel_id_ |-> active_panel_id_,
     current_panel_list_ |-> current_panel_list_,
     current_panel_index_ |-> current_panel_index_,
     active_panel_ |-> active_panel_, hooks |-> hooks, lifecycle |-> lifecycle,
     trace |-> trace, lastAnyRefresh |-> lastAnyRefresh,
     last_refresh_ |-> last_refresh_]

Commit(S) ==
    /\ active_workspace_' = S.active_workspace_
    /\ active_panel_id_' = S.active_panel_id_
    /\ current_panel_list_' = S.current_panel_list_
    /\ current_panel_index_' = S.current_panel_index_
    /\ active_panel_' = S.active_panel_
    /\ hooks' = S.hooks
    /\ lifecycle' = S.lifecycle
    /\ trace' = S.trace
    /\ lastAnyRefresh' = S.lastAnyRefresh
    /\ last_refresh_' = S.last_refresh_

\* The members as the constructors and AppState's initialisers leave them.
Constructed ==
    [active_workspace_ |-> "overview", active_panel_id_ |-> "overview",
     current_panel_list_ |-> <<>>, current_panel_index_ |-> 0,
     active_panel_ |-> nullptr, hooks |-> <<>>,
     lifecycle |-> [i \in Instances |-> "unborn"],
     trace |-> <<>>, lastAnyRefresh |-> 0, last_refresh_ |-> 0]

\* Application::init at time 0.
Application_init(f) ==
    LET S0 == [Constructed EXCEPT !.current_panel_list_ =
                                      get_panels(Constructed.active_workspace_),
                                  !.current_panel_index_ = 0]
        S1 == IF S0.current_panel_list_ # <<>>
              THEN switch_to_panel(S0, S0.current_panel_list_[1], f, 0)
              ELSE S0
    IN  [S1 EXCEPT !.last_refresh_ = 0, !.trace = <<>>]

InitApp(f) ==
    LET S == Application_init(f)
    IN  /\ pc = "render"
        /\ now = 0
        /\ active_workspace_ = S.active_workspace_
        /\ active_panel_id_ = S.active_panel_id_
        /\ current_panel_list_ = S.current_panel_list_
        /\ current_panel_index_ = S.current_panel_index_
        /\ active_panel_ = S.active_panel_
        /\ hooks = S.hooks
        /\ lifecycle = S.lifecycle
        /\ trace = S.trace
        /\ lastAnyRefresh = S.lastAnyRefresh
        /\ last_refresh_ = S.last_refresh_
        /\ wsTrail = <<S.active_workspace_>>
        /\ tabTrail = <<S.active_panel_id_>>
        /\ autoHist = [last |-> -1, gap |-> -1]

\* UIManager::init has run, no frame is drawn yet, main has not returned.
Started ==
    /\ frame = <<>>
    /\ initialized_ = TRUE
    /\ exit_code = <<>>

\* The same, and no function is examined alone.
Idle == call = [fn |-> "none"] /\ Started

\* No glyph function has been called.
NoCall ==
    [fn |-> "none", data |-> <<>>, width |-> 0, height |-> 0, bins |-> 0,
     out |-> <<>>, counts |-> <<>>, ranges |-> {}]

Init ==
    /\ \E s \in StartSizes : UIManagerInit(s[1], s[2])
    /\ \E f \in FetchesFor("OverviewPanel") : InitApp(f)
    /\ glyph = NoCall
    /\ Idle

\* The keys Application::handle_input tells apart, as getch returns them.
HandledKeys ==
    [quit |-> {"q", "Q"}, refresh |-> {"r", "R"}, tab |-> {"Tab"},
     workspace |-> {"w", "W"}, resize |-> {"KEY_RESIZE"}]
RecognizedKeys == UNION {HandledKeys[k] : k \in DOMAIN HandledKeys}

\* handle_input(ch) was entered with key ch.
KeyEvent(ch) == [ev |-> "key", inst |-> -1, ch |-> ch]

\* run(): render_top_bar and render_all at the top of an iteration.
RenderFrame ==
    /\ pc = "render"
    /\ pc' = "input"
    /\ trace' = IF active_panel_ # nullptr
                THEN <<[ev |-> "render", inst |-> Deref(active_panel_).inst,
                        lifecycle |-> lifecycle[Deref(active_panel_).inst]]>>
                ELSE <<Event("render_none", -1)>>
    /\ surface' = render_main_panel(windows["main_panel_win_"], active_panel_, surface)
    /\ frame' = render_top_bar(windows) \o render_all(windows)
    /\ UNCHANGED <<callVars, procVars, stdscr, layout_, windows, now, last_refresh_,
                   active_workspace_, active_panel_id_,
                   current_panel_list_, current_panel_index_, active_panel_, hooks,
                   lifecycle, wsTrail, tabTrail, lastAnyRefresh, autoHist>>

\* get_input() returned ERR: no key within the timeout.
NoKey ==
    /\ pc = "input"
    /\ pc' = "auto"
    /\ UNCHANGED <<callVars, procVars, frame, layoutVars, now, last_refresh_, active_workspace_, active_panel_id_,
                   current_panel_list_, current_panel_index_, active_panel_, hooks,
                   lifecycle, trace, wsTrail, tabTrail, lastAnyRefresh, autoHist>>

\* 'q' / 'Q', as it would be if run() ignored what handle_input returns.
KeyQuit_continues ==
    /\ pc = "input"
    /\ pc' = "auto"
    /\ \E ch \in HandledKeys.quit : trace' = trace \o <<KeyEvent(ch), Event("quit", -1)>>
    /\ UNCHANGED <<callVars, procVars, frame, layoutVars, now, last_refresh_,
                   active_workspace_, active_panel_id_, current_panel_list_,
                   current_panel_index_, active_panel_, hooks, lifecycle, wsTrail,
                   tabTrail, lastAnyRefresh, autoHist>>

\* 'q' / 'Q': handle_input returns false and run() leaves the loop.
KeyQuit ==
    /\ pc = "input"
    /\ pc' = "exited"
    /\ \E ch \in HandledKeys.quit : trace' = trace \o <<KeyEvent(ch), Event("quit", -1)>>
    /\ UNCHANGED <<callVars, procVars, frame, layoutVars, now, last_refresh_, active_workspace_, active_panel_id_,
                   current_panel_list_, current_panel_index_, active_panel_, hooks,
                   lifecycle, wsTrail, tabTrail, lastAnyRefresh, autoHist>>

\* main after run() has returned: Application::shutdown, UIManager::shutdown
\* (destroy_windows, endwin) and return 0.
Shutdown ==
    /\ pc = "exited"
    /\ pc' = "terminated"
    /\ IF initialized_
       THEN /\ windows' = [n \in DOMAIN windows |-> nullptr]
            /\ surface' = NewSurface(nullptr)
            /\ initialized_' = FALSE
       ELSE UNCHANGED <<windows, surface, initialized_>>
    /\ exit_code' = <<0>>
    /\ UNCHANGED <<callVars, frame, stdscr, layout_, now, last_refresh_, active_workspace_,
                   active_panel_id_, current_panel_list_, current_panel_index_,
                   active_panel_, hooks, lifecycle, trace, wsTrail, tabTrail,
                   lastAnyRefresh, autoHist>>

\* The application state as handle_input(ch) finds it.
Pressed(ch) == [AppS EXCEPT !.trace = Append(@, KeyEvent(ch))]

\* 'r' / 'R'.
KeyRefresh ==
    /\ pc = "input"
    /\ pc' = "auto"
    /\ \E ch \in HandledKeys.refresh, f \in Fetches :
          LET S == manual_refresh(Pressed(ch), f, now)
          IN  f \in FetchesFor(Deref(S.active_panel_).cls) /\ Commit(S)
    /\ UNCHANGED <<callVars, procVars, frame, layoutVars, now, wsTrail, tabTrail, autoHist>>

\* The entries of trail followed by x, cut to the latest n + 1.
TrailAfter(trail, x, n) ==
    LET all == Append(trail, x)
    IN  IF Len(all) > n + 1 THEN SubSeq(all, Len(all) - n, Len(all)) ELSE all

\* Tab.
KeyTab ==
    /\ pc = "input"
    /\ pc' = "auto"
    /\ \E ch \in HandledKeys.tab, f \in Fetches :
          LET S == cycle_next_panel(Pressed(ch), f, now)
          IN  /\ f \in FetchesFor(Deref(S.active_panel_).cls)
              /\ Commit(S)
              /\ tabTrail' = TrailAfter(tabTrail, S.active_panel_id_,
                                        Len(S.current_panel_list_))
    /\ UNCHANGED <<callVars, procVars, frame, layoutVars, now, wsTrail, autoHist>>

\* 'w' / 'W'.
KeyWorkspace ==
    /\ pc = "input"
    /\ pc' = "auto"
    /\ \E ch \in HandledKeys.workspace, f \in Fetches :
          LET S == cycle_next_workspace(Pressed(ch), f, now)
          IN  /\ f \in FetchesFor(Deref(S.active_panel_).cls)
              /\ Commit(S)
              /\ wsTrail' = TrailAfter(wsTrail, S.active_workspace_,
                                       Len(get_workspace_ids))
              /\ tabTrail' = <<S.active_panel_id_>>
    /\ UNCHANGED <<callVars, procVars, frame, layoutVars, now, autoHist>>

\* KEY_RESIZE, with the terminal now w columns by h lines.
KeyResize ==
    /\ pc = "input"
    /\ pc' = "auto"
    /\ \E s \in LoopSizes : update_layout(s[1], s[2])
    /\ \E ch \in HandledKeys.resize : trace' = Append(trace, KeyEvent(ch))
    /\ UNCHANGED <<callVars, procVars, frame, now, last_refresh_, active_workspace_, active_panel_id_,
                   current_panel_list_, current_panel_index_, active_panel_, hooks,
                   lifecycle, wsTrail, tabTrail, lastAnyRefresh, autoHist>>

\* Any other key.
KeyOther ==
    /\ pc = "input"
    /\ pc' = "auto"
    /\ \E ch \in PanelKeys : Commit(forward_to_panel(Pressed(ch), ch))
    /\ UNCHANGED <<callVars, procVars, frame, layoutVars, now, wsTrail, tabTrail, autoHist>>

\* handle_auto_refresh() at the end of the iteration.
HandleAutoRefresh ==
    /\ pc = "auto"
    /\ pc' = "sleep"
    /\ \E f \in Fetches :
          LET S0 == [AppS EXCEPT !.trace = Append(@, Event("auto_check", -1))]
              S  == handle_auto_refresh(S0, f, now)
          IN  /\ f \in FetchesFor(Deref(S.active_panel_).cls)
              /\ Commit(S)
              /\ autoHist' = IF S.last_refresh_ # last_refresh_ \/ Len(S.trace) > Len(S0.trace)
                             THEN [last |-> now,
                                   gap |-> IF autoHist.last < 0 THEN -1
                                           ELSE now - autoHist.last]
                             ELSE autoHist
    /\ UNCHANGED <<callVars, procVars, frame, layoutVars, now, wsTrail, tabTrail>>

\* sleep_for(50ms) at the end of an iteration that took dt seconds on the
\* steady clock.
SleepFor(dt) ==
    /\ pc = "sleep"
    /\ pc' = "render"
    /\ now' = IF now + dt > MaxTime THEN now ELSE now + dt
    /\ UNCHANGED <<callVars, procVars, frame, layoutVars, last_refresh_, active_workspace_, active_panel_id_,
                   current_panel_list_, current_panel_index_, active_panel_, hooks,
                   lifecycle, trace, wsTrail, tabTrail, lastAnyRefresh, autoHist>>

\* An iteration shorter than the resolution of the modelled clock.
SleepShort == SleepFor(0)

\* An iteration of any modelled length.
Sleep == \E dt \in 0 .. MaxSleep : SleepFor(dt)

\* The program with every input, over a stretch of time in which the
\* modelled clock does not advance.
Next ==
    \/ RenderFrame
    \/ NoKey
    \/ KeyQuit
    \/ KeyRefresh
    \/ KeyTab
    \/ KeyWorkspace
    \/ KeyResize
    \/ KeyOther
    \/ HandleAutoRefresh
    \/ SleepShort
    \/ Shutdown

Spec == Init /\ [][Next]_vars

\* The program over time, with the inputs that cause a refresh.
NextTimer ==
    \/ RenderFrame
    \/ NoKey
    \/ KeyQuit
    \/ KeyRefresh
    \/ KeyTab
    \/ HandleAutoRefresh
    \/ Sleep
    \/ Shutdown

SpecTimer == Init /\ [][NextTimer]_vars

\* The layout compositor alone: start-up on a terminal of any size followed
\* by resizes to any size.
InitLayout ==
    /\ \E w \in TermWidths, h \in TermHeights : UIManagerInit(w, h)
    /\ InitApp(AllUnavailable)
    /\ glyph = NoCall
    /\ Idle

Resize ==
    /\ \E w \in TermWidths, h \in TermHeights : update_layout(w, h)
    /\ UNCHANGED <<appVars, callVars, procVars, frame>>

NextLayout == Resize

SpecLayout == InitLayout /\ [][NextLayout]_vars

\* KEY_RESIZE in the loop, with the terminal now of any size.
KeyResizeTo ==
    /\ pc = "input"
    /\ pc' = "auto"
    /\ \E w \in TermWidths, h \in TermHeights : update_layout(w, h)
    /\ \E ch \in HandledKeys.resize : trace' = Append(trace, KeyEvent(ch))
    /\ UNCHANGED <<callVars, procVars, frame, now, last_refresh_, active_workspace_,
                   active_panel_id_, current_panel_list_, current_panel_index_,
                   active_panel_, hooks, lifecycle, wsTrail, tabTrail, lastAnyRefresh,
                   autoHist>>

\* The program started on a terminal of any size and resized to any size,
\* up to its exit.
NextWindows ==
    \/ RenderFrame
    \/ NoKey
    \/ KeyResizeTo
    \/ KeyQuit
    \/ HandleAutoRefresh
    \/ SleepShort
    \/ Shutdown

SpecWindows == InitLayout /\ [][NextWindows]_vars

\* Application's public navigation methods called directly, in any order
\* and with any argument; trace holds what the latest call did.
PanelArgs == KnownPanelIds \cup {"fragility", "terminal", "geo", "nonesuch"}

CallEvent(method, arg) == [ev |-> "call", inst |-> -1, method |-> method, arg |-> arg]

Called(method, arg) == [AppS EXCEPT !.trace = <<CallEvent(method, arg)>>]

\* Commit the outcome S of a direct call.
Returned(S) ==
    /\ S.active_panel_ # nullptr
    /\ Commit(S)
    /\ wsTrail' = <<S.active_workspace_>>
    /\ tabTrail' = <<S.active_panel_id_>>
    /\ UNCHANGED <<callVars, procVars, frame, layoutVars, pc, now, autoHist>>

CallSwitchToPanel ==
    \E id \in PanelArgs, f \in Fetches :
        /\ f \in FetchesFor(create_panel(id, 0).cls)
        /\ Returned(switch_to_panel(Called("switch_to_panel", id), id, f, now))

CallCycleNextPanel ==
    \E f \in Fetches :
        LET S == cycle_next_panel(Called("cycle_next_panel", ""), f, now)
        IN  f \in FetchesFor(Deref(S.active_panel_).cls) /\ Returned(S)

CallCyclePrevPanel ==
    \E f \in Fetches :
        LET S == cycle_prev_panel(Called("cycle_prev_panel", ""), f, now)
        IN  f \in FetchesFor(Deref(S.active_panel_).cls) /\ Returned(S)

CallSwitchWorkspace ==
    \E id \in WorkspaceArgs, f \in Fetches :
        LET S == switch_workspace(Called("switch_workspace", id), id, f, now)
        IN  /\ f \in (IF S.active_panel_ = active_panel_ THEN {AllUnavailable}
                      ELSE FetchesFor(Deref(S.active_panel_).cls))
            /\ Returned(S)

CallCycleNextWorkspace ==
    \E f \in Fetches :
        LET S == cycle_next_workspace(Called("cycle_next_workspace", ""), f, now)
        IN  f \in FetchesFor(Deref(S.active_panel_).cls) /\ Returned(S)

NextCalls ==
    \/ CallSwitchToPanel
    \/ CallCycleNextPanel
    \/ CallCyclePrevPanel
    \/ CallSwitchWorkspace
    \/ CallCycleNextWorkspace

SpecCalls == Init /\ [][NextCalls]_vars

\* The glyph functions alone, each called once on a series and arguments of
\* any kind.  Values of a series, and the lengths, widths, heights and bin
\* counts tried.
MaxValue == 3
MaxLen == 3
HistLen == 6
MaxWidth == 3
MaxHeight == 2
MaxBins == 3

\* Every series up to MaxLen values, and the longer ones up to HistLen
\* values in ascending order.
Series ==
    UNION {[1 .. n -> 0 .. MaxValue] : n \in 0 .. MaxLen}
    \cup {s \in UNION {[1 .. n -> 0 .. MaxValue] : n \in (MaxLen + 1) .. HistLen} :
              \A i \in 1 .. (Len(s) - 1) : s[i] <= s[i + 1]}

InitGlyph ==
    /\ \E s \in StartSizes : UIManagerInit(s[1], s[2])
    /\ InitApp(AllUnavailable)
    /\ \E data \in Series : glyph = [NoCall EXCEPT !.data = data]
    /\ Idle

\* The result out of a call of fn on the series drawn, with the arguments
\* given.
Result(fn, width, height, bins, nan, out) ==
    /\ glyph.fn = "none"
    /\ glyph' = [glyph EXCEPT
                    !.fn = fn, !.width = width, !.height = height, !.bins = bins,
                    !.out = out,
                    !.counts = IF fn # "histogram" \/ glyph.data = <<>> \/ bins = 0
                               THEN <<>> ELSE bin_counts(glyph.data, bins, nan),
                    !.ranges = ranges(fn, glyph.data, width, height, bins, nan)]
    /\ UNCHANGED <<layoutVars, appVars, call, procVars, frame>>

CallInlineSparkline ==
    \E width \in 0 .. MaxWidth :
        Result("inline_sparkline", width, 0, 0, 0, inline_sparkline(glyph.data, width))

CallSparkline ==
    \E width \in 0 .. MaxWidth, height \in 0 .. MaxHeight :
        Result("sparkline", width, height, 0, 0, sparkline(glyph.data, width, height))

CallTrendIndicator ==
    \E width \in 0 .. MaxWidth, height \in 0 .. MaxHeight :
        Result("trend_indicator", width, height, 0, 0,
               trend_indicator(glyph.data, width, height))

\* bars(values, max_height), max_height being kept as the height.
CallBars ==
    \E max_height \in 0 .. MaxHeight :
        Result("bars", 0, max_height, 0, 0, bars(glyph.data, max_height))

CallHistogram ==
    \E bins \in 0 .. MaxBins, width \in 0 .. MaxWidth, height \in 0 .. MaxHeight,
       nan \in (IF glyph.data # <<>> /\ min_element(glyph.data) = max_element(glyph.data)
                THEN NaNCast ELSE {0}) :
        Result("histogram", width, height, bins, nan,
               histogram(glyph.data, bins, width, height, nan))

NextGlyph ==
    \/ CallInlineSparkline
    \/ CallSparkline
    \/ CallTrendIndicator
    \/ CallBars
    \/ CallHistogram

SpecGlyph == InitGlyph /\ [][NextGlyph]_vars

(***************************************************************************)
(* Properties                                                              *)
(***************************************************************************)

(***************************************************************************)
(* Parsing of a fetched document (nlohmann::json).  A field of the         *)
(* document is "ok" (present, of the type asked for), "absent" or "wrong"  *)
(* (present, of another type); a value taken from the document is "doc".   *)
(* An array is kept as the sequence of its elements, each an object given  *)
(* by the state of each of its fields.                                     *)
(***************************************************************************)

FieldStates == {"ok", "absent", "wrong"}

\* The keys read from an element of "regimes", of "transitions" and of
\* "metrics", each with the default passed to value().
Defaults ==
    [regimes |-> [name |-> "UNKNOWN", stability |-> "0.0", fragility |-> "0.0",
                  status |-> "UNKNOWN", days |-> "0"],
     transitions |-> [from |-> "", to |-> "", probability |-> "0.0"],
     metrics |-> [name |-> "", value |-> "0.0", unit |-> "", status |-> "OK"]]

\* basic_json::value(key, default) on each key of the object e: the value
\* found, or the default where the key is absent.
value(e, defaults) ==
    [k \in DOMAIN e |-> IF e[k] = "ok" THEN "doc" ELSE defaults[k]]

\* The loop "for (const auto& r : data[key]) { ...; push_back }": value()
\* throws type_error on a key that is there with another type, so the list
\* holds the elements before the first with such a key.
RECURSIVE parse_array(_, _, _)
parse_array(items, defaults, done) ==
    IF items = <<>> THEN [list |-> done, threw |-> FALSE]
    ELSE IF \E k \in DOMAIN Head(items) : Head(items)[k] = "wrong"
    THEN [list |-> done, threw |-> TRUE]
    ELSE parse_array(Tail(items), defaults, Append(done, value(Head(items), defaults)))

\* RegimeStabPanel::parse_regime_data on the members m: every statement up
\* to the first that throws, the catch block only logging.
parse_regime_data_json(m, data) ==
    LET m0 == [m EXCEPT !.regimes_ = <<>>, !.transitions_ = <<>>]
        m1 == IF data.current_regime = "ok" THEN [m0 EXCEPT !.current_regime_ = "doc"]
              ELSE m0
        m2 == IF data.overall_fragility = "ok"
              THEN [m1 EXCEPT !.overall_fragility_ = "doc"] ELSE m1
        rs == parse_array(data.regimes.items, Defaults.regimes, <<>>)
        m3 == IF data.regimes.state = "ok" THEN [m2 EXCEPT !.regimes_ = rs.list] ELSE m2
        ts == parse_array(data.transitions.items, Defaults.transitions, <<>>)
        m4 == IF data.transitions.state = "ok"
              THEN [m3 EXCEPT !.transitions_ = ts.list] ELSE m3
    IN  IF data.current_regime = "wrong" THEN m0
        ELSE IF data.overall_fragility = "wrong" THEN m1
        ELSE IF data.regimes.state = "ok" /\ rs.threw THEN m3
        ELSE m4

\* LiveSystemPanel::parse_system_data on the members m, which is all that
\* LiveSystemPanel::refresh does when get_status_overview returned data.
parse_system_data_json(m, data) ==
    LET m0 == [m EXCEPT !.metrics_ = <<>>]
        m1 == IF data.status = "ok" THEN [m0 EXCEPT !.system_status_ = "doc"] ELSE m0
        ms == parse_array(data.metrics.items, Defaults.metrics, <<>>)
    IN  IF data.status = "wrong" THEN m0
        ELSE IF data.metrics.state = "ok" THEN [m1 EXCEPT !.metrics_ = ms.list]
        ELSE m1

\* The members of a cls panel as the constructors leave them.
Members(cls) ==
    IF cls = "RegimeStabPanel"
    THEN [regimes_ |-> <<>>, transitions_ |-> <<>>, current_regime_ |-> "",
          overall_fragility_ |-> "0.0"]
    ELSE [metrics_ |-> <<>>, recent_logs_ |-> <<>>, system_status_ |-> ""]

\* Largest number of elements of an array of a document.
MaxItems == 2

\* The values of an array field with the element keys of defaults: absent,
\* not an array, or an array of up to MaxItems objects, at most one field of
\* at most one of them not "ok".
Arrays(defaults) ==
    {[state |-> st, items |-> <<>>] : st \in {"absent", "wrong"}}
    \cup {[state |-> "ok", items |-> items] :
            items \in {s \in UNION {[1 .. n -> [DOMAIN defaults -> FieldStates]] :
                                       n \in 0 .. MaxItems} :
                          Cardinality({<<i, k>> \in (DOMAIN s) \X (DOMAIN defaults) :
                                          s[i][k] # "ok"}) <= 1}}

\* The documents get_status_regime (for RegimeStabPanel) and
\* get_status_overview (for LiveSystemPanel) may deliver.
JsonDocuments(cls) ==
    IF cls = "RegimeStabPanel"
    THEN [current_regime : FieldStates, overall_fragility : FieldStates,
          regimes : Arrays(Defaults.regimes), transitions : Arrays(Defaults.transitions)]
    ELSE [status : FieldStates, metrics : Arrays(Defaults.metrics)]

\* The parsers alone, each run once on the freshly constructed panel with a
\* document the fetch delivered.
InitParse ==
    /\ \E s \in StartSizes : UIManagerInit(s[1], s[2])
    /\ InitApp(AllUnavailable)
    /\ glyph = NoCall
    /\ Started
    /\ \E cls \in {"RegimeStabPanel", "LiveSystemPanel"} :
          \E data \in JsonDocuments(cls) :
             call = [fn |-> "none", cls |-> cls, data |-> data]

CallParseRegimeData ==
    /\ call.fn = "none" /\ call.cls = "RegimeStabPanel"
    /\ call' = [fn |-> "refresh", cls |-> call.cls, data |-> call.data,
                out |-> parse_regime_data_json(Members(call.cls), call.data)]
    /\ UNCHANGED <<layoutVars, appVars, glyph, procVars, frame>>

CallParseSystemData ==
    /\ call.fn = "none" /\ call.cls = "LiveSystemPanel"
    /\ call' = [fn |-> "refresh", cls |-> call.cls, data |-> call.data,
                out |-> parse_system_data_json(Members(call.cls), call.data)]
    /\ UNCHANGED <<layoutVars, appVars, glyph, procVars, frame>>

NextParse ==
    \/ CallParseRegimeData
    \/ CallParseSystemData

SpecParse == InitParse /\ [][NextParse]_vars


(***************************************************************************)
(* Truncation of text for display.  A string is kept as its length and     *)
(* whether it ends with "...".                                             *)
(***************************************************************************)

\* std::string::substr(0, count) on a string of len characters: its length.
\* A negative int passed as count converts to a size_t beyond any length.
substr(len, count) == IF count < 0 THEN len ELSE Min(len, count)

\* UIManager::render_console_section: the message printed for a log message
\* of msg_len characters; (size_t)max_len of a negative max_len exceeds any
\* length.
console_message(msg_len, right_w) ==
    LET max_len == right_w - 4
    IN  IF max_len >= 0 /\ msg_len > max_len
        THEN [len |-> substr(msg_len, max_len - 3) + 3, ellipsis |-> TRUE]
        ELSE [len |-> msg_len, ellipsis |-> FALSE]

\* LiveSystemPanel::render: the message printed for a log message of msg_len
\* characters in a window width columns wide.
log_message(msg_len, width) ==
    LET msg_width == width - 46
    IN  IF msg_len > msg_width
        THEN [len |-> substr(msg_len, msg_width - 3) + 3, ellipsis |-> TRUE]
        ELSE [len |-> msg_len, ellipsis |-> FALSE]

\* AssessmentUniversePanel::render: the name printed for a member name of
\* len characters.
member_name(len) ==
    IF len > 20 THEN [len |-> substr(len, 17) + 3, ellipsis |-> TRUE]
    ELSE [len |-> len, ellipsis |-> FALSE]

\* Longest text considered.
MaxTextLen == 140

\* The three truncations alone, each applied once to a text of some length
\* on a terminal of some width.
InitTruncate ==
    /\ \E w \in TermWidths, s \in StartSizes : UIManagerInit(w, s[2])
    /\ InitApp(AllUnavailable)
    /\ glyph = NoCall
    /\ Started
    /\ \E n \in 0 .. MaxTextLen : call = [fn |-> "none", len |-> n]

\* The text out was printed by fn for the one in call, into a column of
\* column characters.
Truncated(fn, column, out) ==
    /\ call.fn = "none"
    /\ call' = [fn |-> fn, len |-> call.len, column |-> column, out |-> out]
    /\ UNCHANGED <<layoutVars, appVars, glyph, procVars, frame>>

CallConsoleMessage ==
    /\ windows["right_sidebar_win_"] # nullptr
    /\ Truncated("render_console_section", layout_.right_width - 4,
                 console_message(call.len, layout_.right_width))

CallLogMessage ==
    /\ windows["main_panel_win_"] # nullptr
    /\ Truncated("LiveSystemPanel::render", Deref(windows["main_panel_win_"]).w - 46,
                 log_message(call.len, Deref(windows["main_panel_win_"]).w))

CallMemberName ==
    /\ windows["main_panel_win_"] # nullptr
    /\ Truncated("AssessmentUniversePanel::render", 20, member_name(call.len))

NextTruncate ==
    \/ CallConsoleMessage
    \/ CallLogMessage
    \/ CallMemberName

SpecTruncate == InitTruncate /\ [][NextTruncate]_vars


\* Tallest terminal a panel is drawn on alone.
MaxTermHeight == 40

\* render() alone: a panel of any class, constructed and refreshed once, is
\* scrolled with any keys and then drawn once on the main window of a
\* terminal of any height.
InitRender ==
    /\ \E s \in StartSizes, h \in 4 .. MaxTermHeight : UIManagerInit(s[1], h)
    /\ InitApp(AllUnavailable)
    /\ glyph = NoCall
    /\ Started
    /\ \E cls \in PanelClasses : \E f \in FetchesFor(cls) :
          call = [fn |-> "none", p |-> refresh(BasePanel(cls, 0), f)]

\* panel->handle_input(ch) before the panel is drawn.
CallHandleInput ==
    /\ call.fn = "none"
    /\ \E ch \in ScrollKeys : call' = [call EXCEPT !.p = handle_input(call.p, ch).panel]
    /\ UNCHANGED <<layoutVars, appVars, glyph, procVars, frame>>

\* render_main_panel() with the panel active.
CallRender ==
    /\ call.fn = "none"
    /\ call' = [call EXCEPT !.fn = "render"]
    /\ surface' = render_main_panel(windows["main_panel_win_"], Ptr(call.p), surface)
    /\ UNCHANGED <<stdscr, layout_, windows, appVars, glyph, procVars, frame>>

NextRender ==
    \/ CallHandleInput
    \/ CallRender

SpecRender == InitRender /\ [][NextRender]_vars


ActivePanel == Deref(active_panel_)

CountEv(tr, ev) == Cardinality({i \in 1 .. Len(tr) : tr[i].ev = ev})

\* ---- Panel lifecycle, scrolling and refresh ----

\* C1: after any sequence of set_active_panel calls exactly one panel is
\* active, the one passed last, and every panel that was active before has
\* received on_deactivated; within a call the previous panel's
\* on_deactivated runs before the new panel's on_activated, so at no point
\* between the hooks are two panels active.
C1_ActivePanelExclusive ==
    /\ active_panel_ # nullptr
    /\ ActiveInstances(lifecycle) = {ActivePanel.inst}
    /\ \A i \in Instances \ {ActivePanel.inst} :
          lifecycle[i] \in {"unborn", "deactivated"}
    /\ \A k \in 1 .. Len(hooks) : Cardinality(hooks[k].active) <= 1
    /\ hooks # <<>>
    /\ hooks[Len(hooks)] = [hook |-> "on_activated", inst |-> ActivePanel.inst,
                            active |-> {ActivePanel.inst}]
    /\ \A k \in 1 .. (Len(hooks) - 1) : hooks[k].hook = "on_deactivated"

\* Every panel object followed has been active, and all but the last one
\* have been replaced.
C1_Witness ==
    /\ Len(hooks) = 2
    /\ Cardinality({i \in Instances : lifecycle[i] = "deactivated"}) = MaxInstances - 1

Content(p) ==
    [m \in (DOMAIN p.data) \ {"scroll_offset_", "stability_data_"} |-> p.data[m]]

\* The placeholder dataset of a panel class: what refresh() loads into a
\* new panel of the class when the data source is unavailable.
PlaceholderContent(cls) == Content(refresh(BasePanel(cls, 0), AllUnavailable))

ListMembers == {"regimes_", "transitions_", "metrics_", "recent_logs_", "risk_metrics_",
                "positions_", "recent_orders_", "members_", "experiments_", "scenes_"}

\* Nothing to show: an absent overview document, or a list without entries.
EmptyContent(c) ==
    \/ "overview_data_" \in DOMAIN c /\ c["overview_data_"] = nullopt
    \/ \E m \in ListMembers \cap DOMAIN c : c[m].len = 0

RefreshEvents == {"refresh", "auto_refresh"}

\* The last refresh() call of the current loop iteration, 0 if there is none.
LastRefresh(tr) ==
    IF \E i \in 1 .. Len(tr) : tr[i].ev \in RefreshEvents
    THEN CHOOSE i \in 1 .. Len(tr) :
            /\ tr[i].ev \in RefreshEvents
            /\ \A j \in (i + 1) .. Len(tr) : tr[j].ev \notin RefreshEvents
    ELSE 0

C4_RefreshClearsDirty ==
    (trace # <<>> /\ trace[Len(trace)].ev \in RefreshEvents) =>
        ~ActivePanel.needs_refresh_

\* ---- Workspace cycling ----

NumWorkspaces == Len(get_workspace_ids)

\* C5: N presses of the next-workspace key, N the number of workspaces,
\* visit every workspace once and end on the workspace active at the start;
\* after each press the cycle position is 0 and the active panel is the
\* first entry of the new workspace's panel list.
C5_WorkspaceCycle ==
    /\ [](Len(wsTrail) = NumWorkspaces + 1 =>
            /\ wsTrail[NumWorkspaces + 1] = wsTrail[1]
            /\ {wsTrail[i] : i \in 1 .. NumWorkspaces} = DOMAIN default_workspaces)
    /\ [][wsTrail' # wsTrail =>
            /\ active_workspace_' = wsTrail'[Len(wsTrail')]
            /\ current_panel_index_' = 0
            /\ current_panel_list_' = default_workspaces[active_workspace_']
            /\ active_panel_id_' = current_panel_list_'[1]
            /\ active_panel_' # nullptr
            /\ Deref(active_panel_').cls = create_panel(current_panel_list_'[1], 0).cls]_vars

\* A full round of the workspaces has just been completed.
C5_Witness ==
    /\ Len(wsTrail) = NumWorkspaces + 1
    /\ pc = "auto"
    /\ CountEv(trace, "set_active_panel") = 1

\* ---- Auto-refresh ----

\* The step is the auto-refresh check of a loop iteration.
AutoCheckStep == pc = "auto" /\ pc' = "sleep"

\* The step refreshes the active panel from the auto-refresh check.
AutoRefreshStep ==
    AutoCheckStep /\ CountEv(trace', "auto_refresh") = CountEv(trace, "auto_refresh") + 1

\* C9: the auto-refresh check runs once in every loop iteration, with or
\* without a key; when more than 10 time units have passed since the timer
\* was reset it refreshes the active panel once and sets the timer to the
\* current time, when fewer than 10 have passed it refreshes nothing and
\* leaves the timer alone; two auto-refreshes are never less than 10 apart.
C9_AutoRefreshPolicy ==
    /\ [][pc = "input" => pc' \in {"auto", "exited"}]_vars
    /\ [](pc = "sleep" => CountEv(trace, "auto_check") = 1)
    /\ [](pc \in {"input", "auto"} => CountEv(trace, "auto_check") = 0)
    /\ [][(AutoCheckStep /\ now - last_refresh_ > refresh_interval) =>
            /\ AutoRefreshStep
            /\ \E f \in Fetches : active_panel_' = Ptr(refresh(ActivePanel, f))
            /\ last_refresh_' = now]_vars
    /\ [][(AutoCheckStep /\ now - last_refresh_ < refresh_interval) =>
            /\ ~AutoRefreshStep
            /\ active_panel_' = active_panel_
            /\ last_refresh_' = last_refresh_]_vars
    /\ [](CountEv(trace, "auto_refresh") <= 1)
    /\ [](autoHist.gap # -1 => autoHist.gap >= refresh_interval)

\* Two auto-refreshes have happened, the second one more than 10 time units
\* after the first.
C9_Witness ==
    /\ pc = "sleep"
    /\ CountEv(trace, "auto_refresh") = 1
    /\ autoHist.gap > refresh_interval

\* C10: a refresh of any kind restarts the interval: after a manual refresh
\* or the refresh of a panel or workspace switch, the active panel is not
\* auto-refreshed until the interval has passed since that refresh (a gap
\* of exactly 10 is let through here).
C10_AnyRefreshRestartsInterval ==
    [][AutoRefreshStep => now - lastAnyRefresh >= refresh_interval]_vars

\* ---- Layout ----

Area(r) == r.w * r.h

Overlap(r1, r2) ==
    /\ r1.x < r2.x + r2.w /\ r2.x < r1.x + r1.w
    /\ r1.y < r2.y + r2.h /\ r2.y < r1.y + r1.h

Within(r, scr) == r.x >= 0 /\ r.y >= 0 /\ r.x + r.w <= scr.w /\ r.y + r.h <= scr.h

RECURSIVE SumAreas(_, _)
SumAreas(rs, names) ==
    IF names = {} THEN 0
    ELSE LET n == CHOOSE m \in names : TRUE
         IN  Area(rs[n]) + SumAreas(rs, names \ {n})

\* The five rectangles rs are pairwise disjoint and cover every cell of the
\* tw x th grid exactly once: none is of negative size, none leaves the
\* grid, no two share a cell, and their areas add up to the grid's.
Tile(rs, tw, th) ==
    /\ \A n \in WindowNames : rs[n].w >= 0 /\ rs[n].h >= 0
    /\ \A n \in WindowNames : Within(rs[n], [w |-> tw, h |-> th])
    /\ \A n, m \in WindowNames : n # m => ~Overlap(rs[n], rs[m])
    /\ SumAreas(rs, WindowNames) = tw * th

LargeEnough ==
    /\ layout_.term_width >= layout_.left_width + layout_.right_width
    /\ layout_.term_height >= layout_.top_bar_height + layout_.status_bar_height

C7_LayoutFunctionOfSize ==
    /\ layout_ = calculate(LayoutDefaults, stdscr.w, stdscr.h)
    /\ stdscr.w <= WideThreshold =>
          layout_.left_width = left_width /\ layout_.right_width = right_width

\* C8: a resize from a width of at most 180 to a width above 180 widens the
\* sidebars from 20/30 to 35/35 and makes main_width the new width minus 70;
\* at a width of exactly 180 the sidebars are 20/30.
C8_WideningScenario ==
    [][/\ (layout_.term_width <= WideThreshold /\ layout_'.term_width > WideThreshold) =>
            /\ layout_.left_width = left_width /\ layout_.right_width = right_width
            /\ layout_'.left_width = WideSidebar /\ layout_'.right_width = WideSidebar
            /\ layout_'.main_width = layout_'.term_width - 2 * WideSidebar
       /\ layout_'.term_width = WideThreshold =>
            layout_'.left_width = left_width /\ layout_'.right_width = right_width]_vars

\* ---- Navigation ----

\* The panel id the loop iteration has asked switch_to_panel for, "" if none.
NavRequest(tr) ==
    IF \E i \in 1 .. Len(tr) : tr[i].ev = "switch_to_panel"
    THEN tr[CHOOSE i \in 1 .. Len(tr) : tr[i].ev = "switch_to_panel"].id
    ELSE ""

\* The key the loop iteration has handled, "" if none.
KeyOf(tr) ==
    IF \E i \in 1 .. Len(tr) : tr[i].ev = "key"
    THEN tr[CHOOSE i \in 1 .. Len(tr) : tr[i].ev = "key"].ch
    ELSE ""

\* The step navigates to a panel id the factory has no class for.
UnknownRequestStep ==
    /\ NavRequest(trace) = ""
    /\ NavRequest(trace') \notin KnownPanelIds \cup {""}

\* C11 as stated: a navigation request for a panel id the panel factory does
\* not know is ignored: the active panel instance, the recorded active panel
\* id and the cycle position are unchanged afterwards.
C11_UnknownPanelIgnored ==
    [][UnknownRequestStep =>
          /\ active_panel_' = active_panel_
          /\ active_panel_id_' = active_panel_id_
          /\ current_panel_index_' = current_panel_index_]_vars

\* C11 as the code has it: a navigation request for a panel id the factory
\* does not know is carried out in full with an OverviewPanel standing in:
\* a new OverviewPanel replaces the active instance, which is deactivated,
\* the requested id becomes the recorded active panel id, and the cycle
\* position is that of the requested entry.
C11_UnknownPanelShownAsOverview ==
    [][UnknownRequestStep =>
          /\ active_panel_' # nullptr
          /\ Deref(active_panel_').cls = "OverviewPanel"
          /\ Deref(active_panel_').inst # ActivePanel.inst
          /\ lifecycle'[ActivePanel.inst] = "deactivated"
          /\ lifecycle'[Deref(active_panel_').inst] = "activated"
          /\ active_panel_id_' = NavRequest(trace')
          /\ current_panel_list_'[current_panel_index_' + 1] = NavRequest(trace')]_vars

\* Tab has just reached the unimplemented "fragility" entry of the trading
\* workspace.
C11_Witness ==
    /\ pc = "auto"
    /\ KeyOf(trace) \in HandledKeys.tab
    /\ NavRequest(trace) = "fragility"
    /\ active_panel_id_ = "fragility"
    /\ ActivePanel.cls = "OverviewPanel"

\* The latest direct call was switch_workspace with an unregistered id.
UnknownWorkspaceCall(tr) ==
    /\ tr # <<>>
    /\ tr[1].ev = "call"
    /\ tr[1].method = "switch_workspace"
    /\ tr[1].arg \notin DOMAIN default_workspaces

\* C12: switch_workspace with an id that is not a registered workspace
\* changes nothing: the active workspace, the current panel list, the cycle
\* position, the active panel and the recorded active panel id are as before
\* the call.
C12_UnknownWorkspaceIgnored ==
    [][UnknownWorkspaceCall(trace') =>
          /\ active_workspace_' = active_workspace_
          /\ current_panel_list_' = current_panel_list_
          /\ current_panel_index_' = current_panel_index_
          /\ active_panel_' = active_panel_
          /\ active_panel_id_' = active_panel_id_
          /\ Len(trace') = 1]_vars

\* switch_workspace has just been called with an unregistered id, away from
\* the start-up workspace and panel.
C12_Witness ==
    /\ UnknownWorkspaceCall(trace)
    /\ active_workspace_ = "trading"
    /\ current_panel_index_ = 2

\* The step handles a Tab key.
TabStep == pc = "input" /\ KeyOf(trace') \in HandledKeys.tab

\* C13: each Tab moves the cycle position from i to (i+1) mod n in the
\* active workspace's n-entry panel list and makes the entry at the new
\* position the active panel; n presses lead back to the starting panel; the
\* active workspace is not changed.
C13_TabCycles ==
    /\ [][TabStep =>
            /\ current_panel_list_' = current_panel_list_
            /\ current_panel_list_ = default_workspaces[active_workspace_]
            /\ current_panel_index_' =
                  (current_panel_index_ + 1) % Len(current_panel_list_)
            /\ active_panel_id_' = current_panel_list_[current_panel_index_' + 1]
            /\ Deref(active_panel_').cls = create_panel(active_panel_id_', 0).cls
            /\ Deref(active_panel_').inst # ActivePanel.inst
            /\ active_workspace_' = active_workspace_]_vars
    /\ [](Len(tabTrail) = Len(current_panel_list_) + 1 =>
            tabTrail[Len(tabTrail)] = tabTrail[1])

\* Tab has just been pressed five times in a row in the five-panel
\* monitoring workspace.
C13_Witness ==
    /\ pc = "auto"
    /\ KeyOf(trace) \in HandledKeys.tab
    /\ active_workspace_ = "monitoring"
    /\ Len(tabTrail) = Len(current_panel_list_) + 1

\* C14: a key other than q/Q, r/R, Tab, w/W and the resize notification is
\* passed to the active panel's handle_input exactly once and changes nothing
\* else: not the active workspace, the panel list, the cycle position, the
\* identity of the active panel, the refresh timer or the running flag; the
\* recognized keys are never passed to the panel.
C14_OtherKeysForwarded ==
    /\ [][(pc = "input" /\ KeyOf(trace') \notin RecognizedKeys \cup {""}) =>
            /\ trace' = trace \o <<KeyEvent(KeyOf(trace')),
                                    Event("handle_input", ActivePanel.inst)>>
            /\ Deref(active_panel_').inst = ActivePanel.inst
            /\ Deref(active_panel_').cls = ActivePanel.cls
            /\ Content(Deref(active_panel_')) = Content(ActivePanel)
            /\ active_workspace_' = active_workspace_
            /\ current_panel_list_' = current_panel_list_
            /\ current_panel_index_' = current_panel_index_
            /\ active_panel_id_' = active_panel_id_
            /\ lifecycle' = lifecycle
            /\ last_refresh_' = last_refresh_
            /\ layout_' = layout_
            /\ pc' = "auto"]_vars
    /\ [](KeyOf(trace) \in RecognizedKeys => CountEv(trace, "handle_input") = 0)

\* A key the panel does not use has just been passed to it.
C14_Witness ==
    /\ pc = "auto"
    /\ KeyOf(trace) = "x"
    /\ CountEv(trace, "handle_input") = 1

\* C15: a panel goes through Inactive, Activated, then Refreshing and
\* Rendered alternating, then Deactivated: refresh() is called on a panel
\* only after its on_activated and before its on_deactivated, and render()
\* only on the active panel.
C15_LifecycleOrder ==
    \A i \in 1 .. Len(trace) :
        trace[i].ev \in RefreshEvents \cup {"render"} => trace[i].lifecycle = "activated"

\* One pass of render_all at the top of a loop iteration.
RenderStep == pc = "render" /\ pc' = "input"

\* C16: rendering the active panel is a pure function of the panel's state
\* and the surface's dimensions: the surface holds afterwards what the same
\* render leaves on an empty surface of that size, whatever was drawn on it
\* before, and the render fetches no data and changes no panel member.
C16_RenderIsPure ==
    [][RenderStep /\ active_panel_ # nullptr
          => /\ surface' = render(Deref(active_panel_), werase(surface))
             /\ active_panel_' = active_panel_
             /\ lastAnyRefresh' = lastAnyRefresh]_vars

\* A non-empty series whose values are all equal.
AllEqual(data) == data # <<>> /\ \A i, j \in DOMAIN data : data[i] = data[j]

\* C17 as the claim has it, for every series: inline_sparkline(S, w) with
\* w > 0 consists of exactly w ramp symbols, all of them the midpoint symbol
\* if S is constant.
C17_SparklineWidthAnySeries ==
    (glyph.fn = "inline_sparkline" /\ glyph.width > 0)
        => /\ Len(glyph.out) = glyph.width
           /\ \A i \in DOMAIN glyph.out : glyph.out[i] \in 0 .. (Len(blocks) - 1)
           /\ AllEqual(glyph.data) => \A i \in DOMAIN glyph.out : glyph.out[i] = MidBlock

\* C17: for every non-empty series S and every width w > 0,
\* inline_sparkline(S, w) consists of exactly w ramp symbols; if all values
\* of S are equal, every one of them is the midpoint symbol (index 4 of the
\* 9-symbol ramp).
C17_SparklineWidth ==
    (glyph.fn = "inline_sparkline" /\ glyph.width > 0 /\ glyph.data # <<>>)
        => /\ Len(glyph.out) = glyph.width
           /\ \A i \in DOMAIN glyph.out : glyph.out[i] \in 0 .. (Len(blocks) - 1)
           /\ AllEqual(glyph.data) => \A i \in DOMAIN glyph.out : glyph.out[i] = MidBlock
           /\ MidBlock = 4 /\ Len(blocks) = 9

\* A constant series of several values drawn three symbols wide.
C17_Witness ==
    /\ glyph.fn = "inline_sparkline"
    /\ glyph.data = <<2, 2>>
    /\ glyph.width = 3
    /\ glyph.out = <<MidBlock, MidBlock, MidBlock>>

\* One of the size arguments the function called has is 0.
ZeroArgument ==
    CASE glyph.fn = "inline_sparkline" -> glyph.width = 0
      [] glyph.fn \in {"sparkline", "trend_indicator"} -> glyph.width = 0 \/ glyph.height = 0
      [] glyph.fn = "bars" -> glyph.height = 0
      [] glyph.fn = "histogram" -> glyph.bins = 0 \/ glyph.width = 0 \/ glyph.height = 0
      [] OTHER -> FALSE

\* C18: every glyph function returns an empty result when the series is
\* empty and when any of its width, height, max_height or bins arguments
\* is 0.
C18_EmptyOnEmptyInput ==
    (glyph.fn # "none" /\ (glyph.data = <<>> \/ ZeroArgument)) => glyph.out = <<>>

\* Sum of the elements of a sequence of numbers.
RECURSIVE Sum(_)
Sum(s) == IF s = <<>> THEN 0 ELSE s[1] + Sum(Tail(s))

\* C19: histogram counts the series into bins buckets of equal width (the
\* values equal to the maximum in the last one, the counts adding up to the
\* length of the series) and draws bucket i with ramp index
\* floor(8 * count_i / peak_count); [1,2,2,3,3,3] in 3 bins and 3 columns
\* has counts [1,2,3] and ramp indices [2,5,8].  Stated for series with more
\* than one value, drawn one column per bucket.
C19_HistogramBuckets ==
    /\ (glyph.fn = "histogram" /\ glyph.data # <<>> /\ ~AllEqual(glyph.data)
        /\ glyph.bins > 0 /\ glyph.width = glyph.bins)
           => /\ Sum(glyph.counts) = Len(glyph.data)
              /\ glyph.counts[glyph.bins] >=
                     Cardinality({i \in DOMAIN glyph.data :
                                     glyph.data[i] = max_element(glyph.data)})
              /\ Len(glyph.out) = glyph.bins
              /\ \A i \in 1 .. glyph.bins :
                     glyph.out[i] = (FullBlock * glyph.counts[i])
                                        \div max_element(glyph.counts)
    /\ (glyph.fn = "histogram" /\ glyph.data = <<1, 2, 2, 3, 3, 3>>
        /\ glyph.bins = 3 /\ glyph.width = 3 /\ glyph.height = 1)
           => glyph.counts = <<1, 2, 3>> /\ glyph.out = <<2, 5, FullBlock>>

\* A string of block characters, or lines of braille characters, showing a
\* flat line: the midpoint block throughout, or dots on one line only.
FlatLine ==
    IF glyph.fn = "sparkline"
    THEN \A r1, r2 \in DOMAIN glyph.out :
            (\E c \in DOMAIN glyph.out[r1] : glyph.out[r1][c] # 0)
            /\ (\E c \in DOMAIN glyph.out[r2] : glyph.out[r2][c] # 0) => r1 = r2
    ELSE \A i \in DOMAIN glyph.out : glyph.out[i] = MidBlock

\* C20: for a non-empty series whose values are all equal, inline_sparkline,
\* BrailleChart::sparkline and histogram never divide by a zero range, and
\* each draws a flat, neutral line.
C20_FlatSeries ==
    (glyph.fn \in {"inline_sparkline", "sparkline", "histogram"} /\ AllEqual(glyph.data))
        => (0 \notin glyph.ranges /\ FlatLine)

\* The sub-cell in sub-column x and sub-row r (both counted from 0) of the
\* lines out is lit: the character's mask has the bit the packing loop uses
\* for that position.
Lit(out, x, r) ==
    LET mask == out[(r \div 4) + 1][(x \div 2) + 1]
        bit  == BRAILLE_DOTS[(r % 4) + 4 * (x % 2) + 1]
    IN  (mask \div bit) % 2 = 1

\* The sub-columns BrailleChart::sparkline plots, counted from 0.
PlottedColumns(data, width) ==
    0 .. ((IF Len(data) <= width * 2 THEN Len(data) ELSE width * 2) - 1)

\* round((1 - normalized_value) * (height * 4 - 1)) for sub-column x.
RoundedSubRow(data, width, height, x) ==
    LET n == IF Len(data) <= width * 2 THEN normalize(data)[x + 1]
             ELSE normalize(data)[((x * Len(data)) \div (width * 2)) + 1]
    IN  (2 * (n[2] - n[1]) * (height * 4 - 1) + n[2]) \div (2 * n[2])

\* C21: BrailleChart::sparkline returns height lines of width glyphs, and in
\* every plotted sub-column exactly one of the height*4 sub-cells is lit, the
\* one at sub-row round((1 - normalized value) * (height*4 - 1)).
C21_SparklineLinePlot ==
    (glyph.fn = "sparkline" /\ glyph.data # <<>> /\ glyph.width > 0 /\ glyph.height > 0)
        => /\ Len(glyph.out) = glyph.height
           /\ \A r \in 1 .. glyph.height : Len(glyph.out[r]) = glyph.width
           /\ \A x \in PlottedColumns(glyph.data, glyph.width) :
                 {r \in 0 .. (glyph.height * 4 - 1) : Lit(glyph.out, x, r)}
                    = {RoundedSubRow(glyph.data, glyph.width, glyph.height, x)}

\* The step handles a quit key.
QuitStep == pc = "input" /\ KeyOf(trace') \in HandledKeys.quit

\* C23: when q or Q is read the loop ends in that iteration: no frame is
\* rendered, no panel refreshed and no input handled afterwards; the only
\* thing that follows is the shutdown of the terminal and exit code 0.
C23_QuitEndsLoop ==
    /\ [][QuitStep =>
            /\ pc' = "exited"
            /\ CountEv(trace', "refresh") = CountEv(trace, "refresh")
            /\ active_panel_' = active_panel_
            /\ lastAnyRefresh' = lastAnyRefresh
            /\ frame' = frame /\ surface' = surface]_vars
    /\ [][pc = "exited" =>
            /\ pc' = "terminated"
            /\ exit_code' = <<0>>
            /\ initialized_ /\ ~initialized_'
            /\ \A n \in DOMAIN windows' : windows'[n] = nullptr
            /\ trace' = trace /\ frame' = frame
            /\ active_panel_' = active_panel_
            /\ lastAnyRefresh' = lastAnyRefresh]_vars
    /\ [][pc # "terminated"]_vars
    /\ [](exit_code # <<>> <=> pc = "terminated")
    /\ [](pc \in {"exited", "terminated"} => KeyOf(trace) \in HandledKeys.quit)

\* The process has ended after Q was pressed on a panel reached by Tab.
C23_Witness ==
    /\ pc = "terminated"
    /\ exit_code = <<0>>
    /\ ~initialized_
    /\ KeyOf(trace) = "Q"
    /\ active_panel_id_ = "regime_stab"

\* The output calls of a frame in which every region is staged once and
\* the screen is updated once, at the end.
FiveStagedThenUpdate(fr) ==
    /\ Len(fr) = Cardinality(WindowNames) + 1
    /\ \A n \in WindowNames :
          Cardinality({i \in 1 .. (Len(fr) - 1) :
                          fr[i] = [op |-> "wnoutrefresh", win |-> n]}) = 1
    /\ fr[Len(fr)] = [op |-> "doupdate", win |-> ""]

FieldwiseParsed(a, defaults) ==
    [i \in DOMAIN a.items |->
        [k \in DOMAIN a.items[i] |->
            IF a.items[i][k] = "ok" THEN "doc" ELSE defaults[k]]]

\* C22: when a fetched document lacks a field or has it with the wrong type,
\* only that field is defaulted: every field that is there is parsed, and
\* every element of every array is kept, with its own missing or wrong-typed
\* fields defaulted.
C22_PerFieldDefaults ==
    /\ (call.fn = "refresh" /\ call.cls = "RegimeStabPanel")
          => /\ (call.data.current_regime = "ok" => call.out.current_regime_ = "doc")
             /\ (call.data.overall_fragility = "ok" => call.out.overall_fragility_ = "doc")
             /\ (call.data.regimes.state = "ok"
                    => call.out.regimes_ = FieldwiseParsed(call.data.regimes, Defaults.regimes))
             /\ (call.data.transitions.state = "ok"
                    => call.out.transitions_ =
                           FieldwiseParsed(call.data.transitions, Defaults.transitions))
    /\ (call.fn = "refresh" /\ call.cls = "LiveSystemPanel")
          => /\ (call.data.status = "ok" => call.out.system_status_ = "doc")
             /\ (call.data.metrics.state = "ok"
                    => call.out.metrics_ = FieldwiseParsed(call.data.metrics, Defaults.metrics))

\* C25: a text that is truncated for display ends with an ellipsis and is
\* no longer than the column declared for it, whatever the window width and
\* the length of the text.
C25_TruncationFitsColumn ==
    (call.fn \in {"render_console_section", "LiveSystemPanel::render",
                  "AssessmentUniversePanel::render"}
     /\ call.out # [len |-> call.len, ellipsis |-> FALSE])
        => (call.out.ellipsis /\ call.out.len <= call.column)

\* The lines of the window that show an element of a vector member of the
\* panel drawn alone.
ListLines ==
    {r \in DOMAIN surface : /\ surface[r].cls = call.p.cls
                            /\ surface[r].item >= 0
                            /\ surface[r].text # "scroll indicator"}

\* C26: whatever the panel, the length of its lists, the scroll offset and
\* the height of the window, render writes no list row on the last line of
\* the window (the bottom margin) or below it, and a scrolled list is shown
\* from the element at the scroll offset on.
C26_ListWithinMargin ==
    (call.fn = "render")
        => /\ \A r \in ListLines : r < Cardinality(DOMAIN surface) - 1
           /\ \A r \in ListLines :
                 (/\ call.p.cls \in OwnScrollClasses
                  /\ surface[r].text \in {"recent_logs_", "recent_orders_", "members_"}
                  /\ \A q \in ListLines : surface[q].text = surface[r].text => r <= q)
                     => surface[r].item = ScrollOffset(call.p)

\* newwin failed for one of the five windows when they were last created.
AllocationFailed == \E n \in WindowNames : create_windows(stdscr, layout_)[n] = nullptr

\* C27: a window that cannot be allocated, at start-up or on a resize, is
\* fatal: the loop is never at any of its steps with a window missing, and
\* the process ends with the terminal restored and an exit code other than 0.
C27_AllocationFailureFatal ==
    /\ (pc \notin {"exited", "terminated"}) => \A n \in WindowNames : windows[n] # nullptr
    /\ AllocationFailed => (exit_code # <<0>>)
    /\ (AllocationFailed /\ pc = "terminated") => ~initialized_

\* C28: after initialization and after every handled input the navigation
\* state is consistent: the recorded active workspace is registered, the
\* current panel list is that workspace's list, the cycle position is below
\* the length of the list, and the recorded active panel id is the entry of
\* the list at the cycle position.
C28_NavigationConsistent ==
    /\ active_workspace_ \in DOMAIN default_workspaces
    /\ current_panel_list_ = default_workspaces[active_workspace_]
    /\ current_panel_index_ >= 0
    /\ current_panel_index_ < Len(current_panel_list_)
    /\ active_panel_id_ = current_panel_list_[current_panel_index_ + 1]

\* The last panel of another workspace than the first is reached with Tab,
\* an id without a class of its own.
C28_Witness ==
    /\ active_workspace_ = "monitoring"
    /\ current_panel_index_ = 4
    /\ active_panel_id_ = "geo"
    /\ KeyOf(trace) \in HandledKeys.tab

\* The events of kind ev in a trace.
EventsOf(tr, ev) == {i \in DOMAIN tr : tr[i].ev = ev}

\* A key is handled by switching the panel.
SwitchStep == pc = "input" /\ pc' = "auto" /\ EventsOf(trace', "switch_to_panel") # {}

\* C29: every panel switch (Tab, the workspace key, coming back to an id
\* shown before) builds a new panel object, refreshes it exactly once and
\* discards the previous one; the new panel has scroll offset 0 and holds
\* what a freshly constructed panel holds after one refresh, nothing of an
\* earlier object.
C29_SwitchBuildsFreshPanel ==
    [][SwitchStep =>
          /\ active_panel_' # nullptr
          /\ active_panel_ # nullptr
          /\ LET old == Deref(active_panel_)
                 new == Deref(active_panel_')
             IN  /\ new.inst # old.inst
                 /\ lifecycle'[old.inst] = "deactivated"
                 /\ lifecycle'[new.inst] = "activated"
                 /\ Cardinality(EventsOf(trace', "create_panel")) = 1
                 /\ Cardinality(EventsOf(trace', "refresh")) = 1
                 /\ \A i \in EventsOf(trace', "refresh") : trace'[i].inst = new.inst
                 /\ new.scroll_offset_ = 0
                 /\ ScrollOffset(new) = 0
                 /\ \E f \in FetchesFor(new.cls) :
                       new = on_activated(refresh(create_panel(active_panel_id_', new.inst),
                                                  f))]_vars

\* Tab has gone once round the trading workspace and is back on the
\* execution panel, with a new object at scroll offset 0.
C29_Witness ==
    /\ active_workspace_ = "trading"
    /\ active_panel_id_ = "execution"
    /\ Len(tabTrail) = Len(current_panel_list_) + 1
    /\ tabTrail[1] = "execution"
    /\ EventsOf(trace, "switch_to_panel") # {}
    /\ ScrollOffset(ActivePanel) = 0

\* The classes whose refresh() loads a fixed dataset.
FixedDataClasses == {"ExecutionPanel", "AssessmentUniversePanel", "PortfolioRiskPanel",
                     "MetaExperimentsPanel", "AntHillPanel"}

\* A key is handled by refreshing a panel, the active one or a new one.
RefreshStep == pc = "input" /\ pc' = "auto" /\ EventsOf(trace', "refresh") # {}

====
